---- MODULE Spec2Model ----
(***************************************************************************)
(* A model of the prediction services of devmind-pipeline: the failure     *)
(* predictor (ml/models/failure_predictor.py) and the build optimizer      *)
(* (src/services/build_optimizer.py).                                      *)
(*                                                                         *)
(* Numbers.  Python floats are modelled as fixed-point integers:           *)
(*   - probabilities and confidences in thousandths   (0.875 is 875),      *)
(*   - rates (failure_rate_7d, error_rate) in hundredths (0.05 is 5),      *)
(*   - impacts in hundredths                           (0.25 is 25),       *)
(*   - deployment_frequency in tenths                  (0.5 is 5),         *)
(*   - test_coverage and the utilizations in percent, counts as integers,  *)
(*   - build times in hundredths of a second           (120 s is 12000).   *)
(* A Python value held by a mapping is Num(n), None (null) or Str (a        *)
(* non-empty string); a key that a mapping does not hold is absent from    *)
(* its DOMAIN.  A call that raises yields [raised |-> <exception type>].   *)
(***************************************************************************)
EXTENDS Integers, Sequences, FiniteSets, TLC

VARIABLES
    is_trained,          \* [service -> BOOLEAN]          self.is_trained
    model,               \* [service -> None or handle]   self.model
    scaler,              \* [service -> fitted-by tag]    self.scaler
    last_training_time,  \* [service -> None or time]     self.last_training_time
    feature_names,       \* failure predictor: self.feature_names
    model_metrics,       \* failure predictor: self.model_metrics
    now,                 \* the wall clock read by datetime.utcnow()
    features,            \* the feature mapping under analysis
    prediction,          \* the Prediction Result of the last prediction
    risk_factors,        \* the risk-factor list of the last analysis
    recommendations,     \* the recommendation list of the last analysis
    generated,           \* the recommendations generated before truncation
    pipeline_metrics,    \* the caller's input record for predict_failure
    request,             \* the caller's request for optimize_build
    cache,               \* the build optimizer's cache store: key -> response
    result,              \* what the last service call returned or raised
    pc,                  \* the position of the caller
    ml_service_manager,  \* main.ml_service_manager: None or the manager
    environ,             \* os.environ: the value of ENVIRONMENT, or Absent
    settings_cache,      \* the lru_cache of get_settings: None or a Settings
    settings_made,       \* the number of Settings instances constructed
    tasks,               \* asyncio: [task -> the train_model call it runs]
    running,             \* asyncio: the task the event loop is running, or 0
    epoch_loop           \* failure predictor: the locals of the epoch loop

vars == <<is_trained, model, scaler, last_training_time, feature_names,
          model_metrics, now, features, prediction, risk_factors,
          recommendations, generated, pipeline_metrics, request, cache, result,
          pc, ml_service_manager, environ, settings_cache, settings_made,
          tasks, running, epoch_loop>>

\* the state of the event loop
loopState == <<tasks, running>>

\* the state of core.config
configState == <<environ, settings_cache, settings_made>>

modelState == <<is_trained, model, scaler, last_training_time, feature_names,
                model_metrics, now>>

Num(n) == [num |-> n]
None == [py |-> "None"]
Str == [py |-> "str"]
Absent == [py |-> "absent"]

Services == {"failure_predictor", "build_optimizer"}

IsNumber(v) == "num" \in DOMAIN v

\* dict.get(key, default): the default only when the key is absent.
Get(d, key, default) == IF key \in DOMAIN d THEN d[key] ELSE Num(default)

\* The number dict.get(key, default) yields, where it is known to be one.
Val(d, key, default) == Get(d, key, default).num

Raise(kind) == [raised |-> kind]

Raised(r) == "raised" \in DOMAIN r

Min(a, b) == IF a < b THEN a ELSE b

Max(a, b) == IF a > b THEN a ELSE b

(***************************************************************************)
(* The failure predictor: the Predictor Core on the heuristic path.        *)
(***************************************************************************)

Mut_determine_risk_level(probability) ==
    IF probability <= 100 THEN "low"
    ELSE IF probability < 300 THEN "medium"
    ELSE IF probability < 600 THEN "high"
    ELSE "critical"

_determine_risk_level(probability) ==
    IF probability < 100 THEN "low"
    ELSE IF probability < 300 THEN "medium"
    ELSE IF probability < 600 THEN "high"
    ELSE "critical"

\* The values _heuristic_prediction compares or multiplies.  Python evaluates
\* `cpu_util > 90 or memory_util > 90` left to right and stops at a true
\* operand, so memory_utilization is compared only when cpu is not above 90.
HeuristicTypeError(f) ==
    LET cpu == Get(f, "resource_utilization", 50)
    IN  \/ ~IsNumber(Get(f, "failure_rate_7d", 5))
        \/ ~IsNumber(Get(f, "code_churn", 0))
        \/ ~IsNumber(Get(f, "test_coverage", 80))
        \/ ~IsNumber(Get(f, "error_rate", 1))
        \/ ~IsNumber(Get(f, "flaky_test_count", 0))
        \/ ~IsNumber(cpu)
        \/ (cpu.num <= 90 /\ ~IsNumber(Get(f, "memory_utilization", 60)))

Mut_risk_score(f) ==
    LET failure_rate  == Val(f, "failure_rate_7d", 5)
        code_churn    == Val(f, "code_churn", 0)
        test_coverage == Val(f, "test_coverage", 80)
        error_rate    == Val(f, "error_rate", 1)
        flaky_tests   == Val(f, "flaky_test_count", 0)
        cpu_util      == Val(f, "resource_utilization", 50)
        memory_util   == Val(f, "memory_utilization", 60)
    IN  failure_rate * 3
        + (IF code_churn > 1000 THEN 200 ELSE IF code_churn > 500 THEN 100 ELSE 0)
        + (IF test_coverage < 70 THEN 150 ELSE IF test_coverage < 80 THEN 100 ELSE 0)
        + (IF error_rate > 5 THEN 200 ELSE 0)
        + (IF flaky_tests > 3 THEN 150 ELSE 0)
        + (IF cpu_util > 90 \/ memory_util > 90 THEN 100 ELSE 0)

risk_score(f) ==
    LET failure_rate  == Val(f, "failure_rate_7d", 5)
        code_churn    == Val(f, "code_churn", 0)
        test_coverage == Val(f, "test_coverage", 80)
        error_rate    == Val(f, "error_rate", 1)
        flaky_tests   == Val(f, "flaky_test_count", 0)
        cpu_util      == Val(f, "resource_utilization", 50)
        memory_util   == Val(f, "memory_utilization", 60)
    IN  failure_rate * 3
        + (IF code_churn > 1000 THEN 200 ELSE IF code_churn > 500 THEN 100 ELSE 0)
        + (IF test_coverage < 70 THEN 150 ELSE IF test_coverage < 80 THEN 100 ELSE 0)
        + (IF error_rate > 5 THEN 200 ELSE 0)
        + (IF flaky_tests > 5 THEN 150 ELSE 0)
        + (IF cpu_util > 90 \/ memory_util > 90 THEN 100 ELSE 0)

_heuristic_prediction(f) ==
    IF HeuristicTypeError(f) THEN Raise("TypeError")
    ELSE LET probability == Min(950, risk_score(f))
         IN  [probability |-> probability,
              confidence  |-> 600,
              risk_level  |-> _determine_risk_level(probability)]

(***************************************************************************)
(* The failure predictor: the Risk/Recommendation Analyzer.                *)
(***************************************************************************)

RiskFactor(factor, severity, value, description, impact) ==
    [factor |-> factor, severity |-> severity, value |-> value,
     description |-> description, impact |-> impact]

\* list.sort(key=impact, reverse=True) is stable: one element is placed after
\* every element whose impact is at least its own.
RECURSIVE InsertByImpact(_, _)
InsertByImpact(x, s) ==
    IF s = <<>> THEN <<x>>
    ELSE IF Head(s).impact >= x.impact THEN <<Head(s)>> \o InsertByImpact(x, Tail(s))
    ELSE <<x>> \o s

RECURSIVE Mut_SortByImpact(_)
Mut_SortByImpact(s) ==
    IF s = <<>> THEN <<>>
    ELSE InsertByImpact(Head(s), Mut_SortByImpact(Tail(s)))

RECURSIVE SortByImpactFrom(_, _)
SortByImpactFrom(s, acc) ==
    IF s = <<>> THEN acc
    ELSE SortByImpactFrom(Tail(s), InsertByImpact(Head(s), acc))

SortByImpact(s) == SortByImpactFrom(s, <<>>)

\* The values _analyze_risk_factors compares.
RiskTypeError(f) ==
    \/ ~IsNumber(Get(f, "failure_rate_7d", 0))
    \/ ~IsNumber(Get(f, "code_churn", 0))
    \/ ~IsNumber(Get(f, "test_coverage", 80))
    \/ ~IsNumber(Get(f, "error_rate", 1))
    \/ ~IsNumber(Get(f, "flaky_test_count", 0))
    \/ ~IsNumber(Get(f, "security_vulnerabilities", 0))

\* The risk factors in the order the code appends them, before the sort.
Mut_TriggeredRiskFactors(f) ==
      (IF Val(f, "failure_rate_7d", 0) > 20
       THEN <<RiskFactor("high_failure_rate", "high", Val(f, "failure_rate_7d", 0),
                         "Recent builds have high failure rate", 30)>> ELSE <<>>)
    \o (IF Val(f, "code_churn", 0) > 1000
       THEN <<RiskFactor("large_code_changes", "medium", Val(f, "code_churn", 0),
                         "Large number of code changes increases risk", 20)>> ELSE <<>>)
    \o (IF Val(f, "test_coverage", 80) < 70
       THEN <<RiskFactor("low_test_coverage", "high", Val(f, "test_coverage", 80),
                         "Test coverage below recommended threshold", 25)>> ELSE <<>>)
    \o (IF Val(f, "error_rate", 1) > 5
       THEN <<RiskFactor("high_error_rate", "high", Val(f, "error_rate", 1),
                         "Application error rate is elevated", 30)>> ELSE <<>>)
    \o (IF Val(f, "flaky_test_count", 0) > 5
       THEN <<RiskFactor("flaky_tests", "medium", Val(f, "flaky_test_count", 0),
                         "Multiple flaky tests detected", 15)>> ELSE <<>>)
    \o (IF Val(f, "security_vulnerabilities", 0) > 0
       THEN <<RiskFactor("security_vulnerabilities", "high",
                         Val(f, "security_vulnerabilities", 0),
                         "Security vulnerabilities in dependencies", 20)>> ELSE <<>>)

TriggeredRiskFactors(f) ==
      (IF Val(f, "failure_rate_7d", 0) > 20
       THEN <<RiskFactor("high_failure_rate", "high", Val(f, "failure_rate_7d", 0),
                         "Recent builds have high failure rate", 30)>> ELSE <<>>)
    \o (IF Val(f, "code_churn", 0) > 1000
       THEN <<RiskFactor("large_code_changes", "medium", Val(f, "code_churn", 0),
                         "Large number of code changes increases risk", 20)>> ELSE <<>>)
    \o (IF Val(f, "test_coverage", 80) < 70
       THEN <<RiskFactor("low_test_coverage", "high", Val(f, "test_coverage", 80),
                         "Test coverage below recommended threshold", 25)>> ELSE <<>>)
    \o (IF Val(f, "error_rate", 1) > 5
       THEN <<RiskFactor("high_error_rate", "high", Val(f, "error_rate", 1),
                         "Application error rate is elevated", 30)>> ELSE <<>>)
    \o (IF Val(f, "flaky_test_count", 0) > 3
       THEN <<RiskFactor("flaky_tests", "medium", Val(f, "flaky_test_count", 0),
                         "Multiple flaky tests detected", 15)>> ELSE <<>>)
    \o (IF Val(f, "security_vulnerabilities", 0) > 0
       THEN <<RiskFactor("security_vulnerabilities", "high",
                         Val(f, "security_vulnerabilities", 0),
                         "Security vulnerabilities in dependencies", 20)>> ELSE <<>>)

\* The prediction is a parameter the code never reads.
_analyze_risk_factors(f, p) ==
    IF RiskTypeError(f) THEN Raise("TypeError")
    ELSE [value |-> SortByImpact(TriggeredRiskFactors(f))]

Recommendation(type, priority, action, reason) ==
    [type |-> type, priority |-> priority, action |-> action, reason |-> reason]

Mut_FactorRecommendation(factor) ==
    IF factor.factor \in {"high_failure_rate", "large_code_changes"}
    THEN <<Recommendation("process", "high",
                          "Review recent failures and implement fixes",
                          <<"Failure rate trending upward">>)>>
    ELSE <<>>

\* The recommendation of one risk factor; factors without one yield nothing.
FactorRecommendation(factor) ==
    IF factor.factor = "high_failure_rate"
    THEN <<Recommendation("process", "high",
                          "Review recent failures and implement fixes",
                          <<"Failure rate trending upward">>)>>
    ELSE IF factor.factor = "low_test_coverage"
    THEN <<Recommendation("quality", "medium",
                          "Increase test coverage before proceeding",
                          <<"Coverage at", factor.value>>)>>
    ELSE IF factor.factor = "flaky_tests"
    THEN <<Recommendation("quality", "medium", "Fix or quarantine flaky tests",
                          <<"flaky tests detected", factor.value>>)>>
    ELSE IF factor.factor = "security_vulnerabilities"
    THEN <<Recommendation("security", "high", "Address security vulnerabilities",
                          <<"vulnerabilities found", factor.value>>)>>
    ELSE <<>>

RECURSIVE FactorRecommendations(_)
FactorRecommendations(rf) ==
    IF rf = <<>> THEN <<>>
    ELSE FactorRecommendation(Head(rf)) \o FactorRecommendations(Tail(rf))

\* The local list `recommendations` as it stands before the final slice.
GeneratedRecommendations(f, p, rf) ==
      (IF p.risk_level \in {"high", "critical"}
       THEN <<Recommendation("immediate", "high",
                             "Consider manual review before deployment",
                             <<"High failure probability", p.probability>>)>>
       ELSE <<>>)
    \o FactorRecommendations(rf)
    \o (IF Val(f, "deployment_frequency", 10) < 5
       THEN <<Recommendation("process", "low",
                             "Consider increasing deployment frequency",
                             <<"More frequent deployments reduce risk">>)>>
       ELSE <<>>)

Mut_Top5(s) == IF Len(s) > 5 THEN SubSeq(s, Len(s) - 4, Len(s)) ELSE s

\* recommendations[:5]
Top5(s) == SubSeq(s, 1, Min(5, Len(s)))

_generate_recommendations(f, p, rf) ==
    IF ~IsNumber(Get(f, "deployment_frequency", 10)) THEN Raise("TypeError")
    ELSE [value |-> Top5(GeneratedRecommendations(f, p, rf))]

(***************************************************************************)
(* The failure predictor: the Feature Extractor.  The input record maps    *)
(* section names to values: a history is [list |-> <<numbers>>], a         *)
(* sub-section is [dict |-> <<field -> value>>], a parsed ISO timestamp is  *)
(* [ts |-> [hour, weekday]]; any of them may instead be None or Str.       *)
(* Durations are in seconds, means and deviations are floored to whole     *)
(* seconds, trends and the two time encodings to hundredths/thousandths.   *)
(***************************************************************************)

IsList(v) == "list" \in DOMAIN v

IsDict(v) == "dict" \in DOMAIN v

EmptyDict == [dict |-> <<>>]

EmptyList == [list |-> <<>>]

\* Python truthiness: None, 0, the empty list and the empty dict are false.
Truthy(v) ==
    IF IsList(v) THEN v.list # <<>>
    ELSE IF IsDict(v) THEN DOMAIN v.dict # {}
    ELSE IF IsNumber(v) THEN v.num # 0
    ELSE v # None

RECURSIVE SumSeq(_)
SumSeq(s) == IF s = <<>> THEN 0 ELSE Head(s) + SumSeq(Tail(s))

\* sum of i * values[i] over the zero-based index i
RECURSIVE SumIndexed(_, _)
SumIndexed(s, i) == IF s = <<>> THEN 0 ELSE i * Head(s) + SumIndexed(Tail(s), i + 1)

RECURSIVE SumSquares(_)
SumSquares(s) == IF s = <<>> THEN 0 ELSE Head(s) * Head(s) + SumSquares(Tail(s))

ISqrt(n) == CHOOSE r \in 0..n : r * r <= n /\ n < (r + 1) * (r + 1)

\* np.mean
Mean(s) == SumSeq(s) \div Len(s)

\* np.std: the population standard deviation
Std(s) == ISqrt((Len(s) * SumSquares(s) - SumSeq(s) * SumSeq(s)) \div (Len(s) * Len(s)))

\* The least-squares slope of the values against their index, in hundredths.
_calculate_trend(values) ==
    IF Len(values) < 2 THEN 0
    ELSE LET n   == Len(values)
             sx  == (n * (n - 1)) \div 2
             sxx == ((n - 1) * n * (2 * n - 1)) \div 6
         IN  (100 * (n * SumIndexed(values, 0) - sx * SumSeq(values)))
                 \div (n * sxx - sx * sx)

\* failure_history[-20:]
Last20(s) == IF Len(s) <= 20 THEN s ELSE SubSeq(s, Len(s) - 19, Len(s))

DurationStatistics(pm) ==
    LET duration_history == IF "duration_history" \in DOMAIN pm
                            THEN pm["duration_history"] ELSE EmptyList
    IN  IF ~Truthy(duration_history)
        THEN [value |-> [pipeline_duration_mean  |-> Num(300),
                         pipeline_duration_std   |-> Num(50),
                         pipeline_duration_trend |-> Num(0)]]
        ELSE IF ~IsList(duration_history) THEN Raise("TypeError")
        ELSE [value |->
                [pipeline_duration_mean  |-> Num(Mean(duration_history.list)),
                 pipeline_duration_std   |-> Num(Std(duration_history.list)),
                 pipeline_duration_trend |-> Num(_calculate_trend(duration_history.list))]]

Mut_FailureStatistics(pm) ==
    LET failure_history == IF "failure_history" \in DOMAIN pm
                           THEN pm["failure_history"] ELSE EmptyList
    IN  IF ~Truthy(failure_history)
        THEN [value |-> [failure_rate_7d |-> Num(0), failure_trend |-> Num(0)]]
        ELSE IF ~IsList(failure_history) THEN Raise("TypeError")
        ELSE LET recent_failures == Last20(failure_history.list)
             IN  [value |->
                    [failure_rate_7d |->
                        Num((100 * SumSeq(recent_failures)) \div Len(recent_failures)),
                     failure_trend |-> Num(_calculate_trend(recent_failures))]]

\* failure_rate_7d in hundredths, floored.
FailureStatistics(pm) ==
    LET failure_history == IF "failure_history" \in DOMAIN pm
                           THEN pm["failure_history"] ELSE EmptyList
    IN  IF ~Truthy(failure_history)
        THEN [value |-> [failure_rate_7d |-> Num(5), failure_trend |-> Num(0)]]
        ELSE IF ~IsList(failure_history) THEN Raise("TypeError")
        ELSE LET recent_failures == Last20(failure_history.list)
             IN  [value |->
                    [failure_rate_7d |->
                        Num((100 * SumSeq(recent_failures)) \div Len(recent_failures)),
                     failure_trend |-> Num(_calculate_trend(recent_failures))]]

\* pipeline_metrics.get(name, {}), on which the code then calls .get
Section(pm, name) == IF name \in DOMAIN pm THEN pm[name] ELSE EmptyDict

CodeMetrics(pm) ==
    LET code_metrics == Section(pm, "code_metrics")
    IN  IF ~IsDict(code_metrics) THEN Raise("AttributeError")
        ELSE [value |->
                [code_churn       |-> Get(code_metrics.dict, "lines_changed", 0),
                 files_changed    |-> Get(code_metrics.dict, "files_changed", 0),
                 complexity_delta |-> Get(code_metrics.dict, "complexity_change", 0)]]

TestMetrics(pm) ==
    LET test_metrics == Section(pm, "test_metrics")
    IN  IF ~IsDict(test_metrics) THEN Raise("AttributeError")
        ELSE [value |->
                [test_coverage    |-> Get(test_metrics.dict, "coverage_percentage", 80),
                 test_count       |-> Get(test_metrics.dict, "test_count", 0),
                 test_duration    |-> Get(test_metrics.dict, "test_duration", 0),
                 flaky_test_count |-> Get(test_metrics.dict, "flaky_tests", 0)]]

Mut_DeploymentMetrics(pm) ==
    LET deployment_metrics == Section(pm, "deployment_metrics")
    IN  IF ~IsDict(deployment_metrics) THEN Raise("AttributeError")
        ELSE [value |->
                [deployments_per_day     |->
                    Get(deployment_metrics.dict, "deployments_per_day", 10),
                 deployment_success_rate |->
                    Get(deployment_metrics.dict, "success_rate", 95)]]

DeploymentMetrics(pm) ==
    LET deployment_metrics == Section(pm, "deployment_metrics")
    IN  IF ~IsDict(deployment_metrics) THEN Raise("AttributeError")
        ELSE [value |->
                [deployment_frequency    |->
                    Get(deployment_metrics.dict, "deployments_per_day", 10),
                 deployment_success_rate |->
                    Get(deployment_metrics.dict, "success_rate", 95)]]

InfrastructureMetrics(pm) ==
    LET infra_metrics == Section(pm, "infrastructure_metrics")
    IN  IF ~IsDict(infra_metrics) THEN Raise("AttributeError")
        ELSE [value |->
                [error_rate           |-> Get(infra_metrics.dict, "error_rate", 1),
                 response_time_p95    |-> Get(infra_metrics.dict, "response_time_p95", 200),
                 resource_utilization |-> Get(infra_metrics.dict, "cpu_utilization", 50),
                 memory_utilization   |-> Get(infra_metrics.dict, "memory_utilization", 60)]]

IsTimestamp(v) == "ts" \in DOMAIN v

\* dt.hour / 24.0 in thousandths; an absent, empty or unparsable timestamp is 0.0
_encode_time_of_day(timestamp) ==
    IF ~Truthy(timestamp) THEN 0
    ELSE IF IsTimestamp(timestamp) THEN (1000 * timestamp.ts.hour) \div 24
    ELSE 0

\* dt.weekday() / 6.0 in thousandths
_encode_day_of_week(timestamp) ==
    IF ~Truthy(timestamp) THEN 0
    ELSE IF IsTimestamp(timestamp) THEN (1000 * timestamp.ts.weekday) \div 6
    ELSE 0

_is_weekend(timestamp) ==
    IF ~Truthy(timestamp) THEN 0
    ELSE IF IsTimestamp(timestamp) THEN (IF timestamp.ts.weekday >= 5 THEN 1 ELSE 0)
    ELSE 0

EnvironmentMetrics(pm) ==
    LET env_metrics == Section(pm, "environment_metrics")
    IN  IF ~IsDict(env_metrics) THEN Raise("AttributeError")
        ELSE LET timestamp == IF "timestamp" \in DOMAIN env_metrics.dict
                              THEN env_metrics.dict["timestamp"] ELSE None
             IN  [value |->
                    [time_of_day |-> Num(_encode_time_of_day(timestamp)),
                     day_of_week |-> Num(_encode_day_of_week(timestamp)),
                     is_weekend  |-> Num(_is_weekend(timestamp))]]

DependencyMetrics(pm) ==
    LET dependency_metrics == Section(pm, "dependency_metrics")
    IN  IF ~IsDict(dependency_metrics) THEN Raise("AttributeError")
        ELSE [value |->
                [dependency_count         |->
                    Get(dependency_metrics.dict, "total_dependencies", 0),
                 outdated_dependencies    |->
                    Get(dependency_metrics.dict, "outdated_count", 0),
                 security_vulnerabilities |->
                    Get(dependency_metrics.dict, "vulnerability_count", 0)]]

\* The first of the parts that raised, or the merge of their mappings.
RECURSIVE Collect(_, _)
Collect(parts, acc) ==
    IF parts = <<>> THEN [value |-> acc]
    ELSE IF Raised(Head(parts)) THEN Head(parts)
    ELSE Collect(Tail(parts), acc @@ Head(parts).value)

_extract_features(pm) ==
    Collect(<<DurationStatistics(pm), FailureStatistics(pm), CodeMetrics(pm),
              TestMetrics(pm), DeploymentMetrics(pm), InfrastructureMetrics(pm),
              EnvironmentMetrics(pm), DependencyMetrics(pm)>>, <<>>)

(***************************************************************************)
(* The failure predictor: the Predictor Core and predict_failure.          *)
(***************************************************************************)

FP == "failure_predictor"

BO == "build_optimizer"

\* MLModelConfig.FAILURE_PREDICTOR["feature_columns"]
FailurePredictorFeatureColumns ==
    <<"pipeline_duration_mean", "pipeline_duration_std", "failure_rate_7d",
      "code_churn", "test_coverage", "deployment_frequency", "error_rate",
      "response_time_p95", "resource_utilization">>

\* [features.get(col, 0.0) for col in self.feature_names]
_prepare_feature_vector(f) ==
    [i \in 1..Len(feature_names) |-> Get(f, feature_names[i], 0)]

\* base 0.8, times 0.8 at the extremes, times 0.7 when failure_rate_7d == 0
_calculate_confidence(f, probability) ==
    LET base     == 800
        edge     == IF probability < 50 \/ probability > 950
                    THEN (base * 8) \div 10 ELSE base
        rate     == Get(f, "failure_rate_7d", 0)
        adjusted == IF IsNumber(rate) /\ rate.num = 0 THEN (edge * 7) \div 10 ELSE edge
    IN  Min(1000, adjusted)

\* self.scaler.transform(X): the vector on the scale of the training run
\* that fitted the scaler.
transform(sc, vector) == [vector |-> vector, scaled_by |-> sc.fitted_by]

\* torch.FloatTensor([feature_vector]): what _make_prediction hands to the
\* network.
feature_tensor(f) == [vector |-> _prepare_feature_vector(f)]

\* `output` is what the network returns for the feature tensor; `fault` is an
\* error raised while the vector is prepared or the network is invoked.
\* torch.FloatTensor raises on a vector that holds a value that is no number.
_make_prediction(f, output, fault) ==
    IF model[FP] = None \/ ~is_trained[FP]
    THEN [path |-> "heuristic", result |-> _heuristic_prediction(f)]
    ELSE LET feature_vector == _prepare_feature_vector(f)
         IN  IF \/ fault \in {"prepare", "invoke"}
                \/ \E i \in DOMAIN feature_vector : ~IsNumber(feature_vector[i])
             THEN [path |-> "fallback", result |-> _heuristic_prediction(f)]
             ELSE [path |-> "model",
                   result |-> [probability |-> output,
                               confidence  |-> _calculate_confidence(f, output),
                               risk_level  |-> _determine_risk_level(output)]]

\* The clock counts ticks; a second holds TicksPerSecond of them.
TicksPerSecond == 2

\* strftime('%Y%m%d_%H%M%S'): the time to the second, the fraction dropped.
strftime(t) == [second |-> t \div TicksPerSecond]

\* isoformat(): the time to the microsecond.
isoformat(t) == [second |-> t \div TicksPerSecond, fraction |-> t % TicksPerSecond]

Mut_get_model_version ==
    IF is_trained[FP]
    THEN [v |-> strftime(last_training_time[FP].time)]
    ELSE [literal |-> "v0.0.0"]

\* v + strftime('%Y%m%d_%H%M%S') of the last training time, or v0.0.0
_get_model_version ==
    IF last_training_time[FP] # None
    THEN [v |-> strftime(last_training_time[FP].time)]
    ELSE [literal |-> "v0.0.0"]

\* The whole of predict_failure: an error of any step is logged and re-raised.
predict_failure(pm, output, fault) ==
    LET extracted == _extract_features(pm)
    IN  IF Raised(extracted)
        THEN [op |-> "predict_failure", path |-> "none", features |-> None,
              raised |-> extracted.raised]
        ELSE
        LET f    == extracted.value
            made == _make_prediction(f, output, fault)
            p    == made.result
        IN  IF Raised(p)
            THEN [op |-> "predict_failure", path |-> made.path, features |-> f,
                  raised |-> p.raised]
            ELSE
            LET rf == _analyze_risk_factors(f, p)
            IN  IF Raised(rf)
                THEN [op |-> "predict_failure", path |-> made.path, features |-> f,
                      raised |-> rf.raised]
                ELSE
                LET rec == _generate_recommendations(f, p, rf.value)
                IN  IF Raised(rec)
                    THEN [op |-> "predict_failure", path |-> made.path,
                          features |-> f, raised |-> rec.raised]
                    ELSE [op |-> "predict_failure", path |-> made.path,
                          features |-> f,
                          value |-> [failure_probability |-> p.probability,
                                     confidence          |-> p.confidence,
                                     risk_level          |-> p.risk_level,
                                     risk_factors        |-> rf.value,
                                     recommendations     |-> rec.value,
                                     timestamp           |-> now,
                                     model_version       |-> _get_model_version]]

(***************************************************************************)
(* The analysis of one feature mapping: the mapping is the input, and the  *)
(* three steps of the analysis are applied to it in the order of           *)
(* predict_failure.                                                        *)
(***************************************************************************)

FeatureKeys ==
    {"failure_rate_7d", "code_churn", "test_coverage", "error_rate",
     "flaky_test_count", "resource_utilization", "memory_utilization",
     "security_vulnerabilities", "deployment_frequency"}

\* The mapping that holds the keys of c whose value is not Absent.
Mapping(c) == [k \in {k \in DOMAIN c : c[k] # Absent} |-> c[k]]

FeatureMappings ==
    {Mapping([failure_rate_7d |-> fr, code_churn |-> cc, test_coverage |-> tc,
              error_rate |-> er, flaky_test_count |-> fl,
              resource_utilization |-> cpu, memory_utilization |-> mem,
              security_vulnerabilities |-> sv, deployment_frequency |-> df]) :
        fr \in {Absent, Num(-100), Num(20), Num(25), Num(100)},
        cc \in {Absent, Num(500), Num(501), Num(1000), Num(1200)},
        tc \in {Absent, Num(65), Num(70), Num(79)},
        er \in {Absent, Num(5), Num(6)},
        fl \in {Absent, Num(3), Num(4), Num(5), Num(6)},
        cpu \in {Absent, Num(90), Num(95)},
        mem \in {Absent, Num(95)},
        sv \in {Absent, Num(1)},
        df \in {Absent, Num(4), Num(5)}}

NoCall == [op |-> "none"]

\* The bound on the number of tasks the event loop is given.
MaxTasks == 2

TaskIds == 1..MaxTasks

NoTask == [pc |-> "none"]

\* core.config after its import in a process that has not set ENVIRONMENT,
\* and an event loop with no task
ConfigImported ==
    /\ environ = Absent
    /\ settings_cache = None
    /\ settings_made = 0
    /\ tasks = [t \in TaskIds |-> NoTask]
    /\ running = 0
    /\ epoch_loop = None

Constructed ==
    /\ is_trained = [s \in Services |-> FALSE]
    /\ model = [s \in Services |-> None]
    /\ scaler = [s \in Services |-> [fitted_by |-> 0]]
    /\ last_training_time = [s \in Services |-> None]
    /\ feature_names = <<>>
    /\ model_metrics = [k \in {} |-> 0]
    /\ now = 1

InitAnalyzer ==
    /\ Constructed
    /\ features \in FeatureMappings
    /\ prediction = None
    /\ risk_factors = None
    /\ recommendations = None
    /\ generated = None
    /\ pipeline_metrics = None
    /\ request = None
    /\ cache = <<>>
    /\ result = NoCall
    /\ ml_service_manager = None
    /\ ConfigImported
    /\ pc = "features"

HeuristicPrediction ==
    /\ pc = "features"
    /\ prediction' = _heuristic_prediction(features)
    /\ pc' = "predicted"
    /\ UNCHANGED <<modelState, features, risk_factors, recommendations, generated,
                   pipeline_metrics, request, cache, result, ml_service_manager,
                   configState, loopState, epoch_loop>>

AnalyzeRiskFactors ==
    /\ pc = "predicted"
    /\ risk_factors' = _analyze_risk_factors(features, prediction).value
    /\ pc' = "analyzed"
    /\ UNCHANGED <<modelState, features, prediction, recommendations, generated,
                   pipeline_metrics, request, cache, result, ml_service_manager,
                   configState, loopState, epoch_loop>>

GenerateRecommendations ==
    /\ pc = "analyzed"
    /\ generated' = GeneratedRecommendations(features, prediction, risk_factors)
    /\ recommendations' = _generate_recommendations(features, prediction, risk_factors).value
    /\ pc' = "recommended"
    /\ UNCHANGED <<modelState, features, prediction, risk_factors,
                   pipeline_metrics, request, cache, result, ml_service_manager,
                   configState, loopState, epoch_loop>>

NextAnalyzer ==
    \/ HeuristicPrediction
    \/ AnalyzeRiskFactors
    \/ GenerateRecommendations

SpecAnalyzer == InitAnalyzer /\ [][NextAnalyzer]_vars

(***************************************************************************)
(* The build optimizer.  A request is a record: dependencies is a list of  *)
(* package identifiers, historical_data is [list |-> <<[duration,          *)
(* success]>>] or None, test_files is [list |-> ...] or None, build_config *)
(* is [dict |-> ...] or None.                                              *)
(* historical_build_time is in tenths of a second.                         *)
(***************************************************************************)

Mut_BuildOptimizerMethods ==
    {"initialize", "optimize_build", "_extract_features", "_predict_build_metrics",
     "_heuristic_prediction", "_generate_recommendations",
     "_recommend_cache_strategy", "_recommend_resource_allocation", "train_model",
     "_prepare_training_data", "_extract_features_from_build_data",
     "_prepare_feature_vector", "_generate_cache_key", "_load_model", "_save_model",
     "health_check"}

\* The methods the class BuildOptimizer defines.
BuildOptimizerMethods ==
    {"initialize", "optimize_build", "_extract_features", "_predict_build_metrics",
     "_heuristic_prediction", "_generate_recommendations",
     "_recommend_cache_strategy", "_recommend_resource_allocation", "train_model",
     "_prepare_training_data", "_prepare_feature_vector", "_generate_cache_key",
     "_calculate_branch_complexity", "_calculate_commit_frequency",
     "_estimate_package_size", "_calculate_dependency_update_frequency",
     "_encode_environment", "_calculate_confidence",
     "_estimate_optimization_potential", "_load_model", "_save_model",
     "health_check"}

\* MLModelConfig.BUILD_OPTIMIZER["feature_columns"]
BuildOptimizerFeatureColumns ==
    <<"dependency_count", "code_change_size", "file_count", "test_count",
      "historical_build_time", "branch_complexity", "commit_frequency",
      "package_size">>

RECURSIVE InsertSorted(_, _)
InsertSorted(x, s) ==
    IF s = <<>> THEN <<x>>
    ELSE IF Head(s) <= x THEN <<Head(s)>> \o InsertSorted(x, Tail(s))
    ELSE <<x>> \o s

RECURSIVE Sorted(_)
Sorted(s) == IF s = <<>> THEN <<>> ELSE InsertSorted(Head(s), Sorted(Tail(s)))

\* The key data with the dependency list hashed in the order given.
Mut_generate_cache_key(r) ==
    [project_name       |-> r.project_name,
     dependencies_hash  |-> r.dependencies,
     code_changes_hash  |-> <<r.code_changes.lines_added, r.code_changes.lines_deleted,
                              r.code_changes.files_changed>>,
     target_environment |-> r.target_environment]

\* The key data that is hashed: the hash is taken as injective.
_generate_cache_key(r) ==
    [project_name       |-> r.project_name,
     dependencies_hash  |-> Sorted(r.dependencies),
     code_changes_hash  |-> <<r.code_changes.lines_added, r.code_changes.lines_deleted,
                              r.code_changes.files_changed>>,
     target_environment |-> r.target_environment]

RECURSIVE SumDurations(_)
SumDurations(h) == IF h = <<>> THEN 0 ELSE Head(h).duration + SumDurations(Tail(h))

RECURSIVE CountSuccess(_)
CountSuccess(h) ==
    IF h = <<>> THEN 0
    ELSE (IF Head(h).success THEN 1 ELSE 0) + CountSuccess(Tail(h))

\* min(10.0, (lines_changed / files_changed) / 10), in hundredths
_calculate_branch_complexity(r) ==
    IF r.code_changes.files_changed = 0 THEN 100
    ELSE Min(1000, (10 * (r.code_changes.lines_added + r.code_changes.lines_deleted))
                       \div r.code_changes.files_changed)

\* commits per day over 30 days, in hundredths
_calculate_commit_frequency(r) ==
    IF ~Truthy(r.historical_data) THEN 100
    ELSE (100 * Len(r.historical_data.list)) \div 30

_encode_environment(environment) ==
    IF environment = "staging" THEN 2
    ELSE IF environment = "production" THEN 3
    ELSE 1

\* The features the code computes itself; the feature engineer's additions
\* are taken to be none.
BuildOptimizer_extract_features(r) ==
    LET history == IF Truthy(r.historical_data) THEN r.historical_data.list ELSE <<>>
    IN  [dependency_count |-> Num(Len(r.dependencies)),
         code_change_size |-> Num(r.code_changes.lines_added + r.code_changes.lines_deleted),
         file_count       |-> Num(r.code_changes.files_changed),
         test_count       |-> Num(IF Truthy(r.test_files) THEN Len(r.test_files.list) ELSE 0),
         historical_build_time |->
            Num(IF history = <<>> THEN 3000
                ELSE (10 * SumDurations(history)) \div Len(history)),
         build_success_rate |->
            Num(IF history = <<>> THEN 90
                ELSE (100 * CountSuccess(history)) \div Len(history)),
         branch_complexity |-> Num(_calculate_branch_complexity(r)),
         commit_frequency  |-> Num(_calculate_commit_frequency(r)),
         package_size      |-> Num(Len(r.dependencies) * 10),
         dependency_update_frequency |-> Num(Len(r.dependencies)),
         target_environment |-> Num(_encode_environment(r.target_environment)),
         parallel_jobs |->
            Num(IF Truthy(r.build_config)
                THEN Val(r.build_config.dict, "parallel_jobs", 1) ELSE 1)]

\* 120 + 5 dependencies + 0.1 change size + 2 tests + 0.3 historical time
BuildOptimizer_heuristic_prediction(f) ==
    [build_time |-> 12000 + 500 * Val(f, "dependency_count", 0)
                    + 10 * Val(f, "code_change_size", 0)
                    + 200 * Val(f, "test_count", 0)
                    + 3 * Val(f, "historical_build_time", 3000),
     confidence |-> 600,
     optimization_potential |-> 200]

BuildOptimizer_calculate_confidence(f, output) ==
    LET base  == 800
        edge  == IF output > 180000 THEN (base * 7) \div 10
                 ELSE IF output < 6000 THEN (base * 8) \div 10
                 ELSE base
        known == IF Val(f, "historical_build_time", 0) > 0
                 THEN (edge * 11) \div 10 ELSE edge
    IN  Min(1000, known)

_estimate_optimization_potential(f, output) ==
    IF output < 12000 THEN 100
    ELSE Min(800, 300 + (IF Val(f, "dependency_count", 0) > 20 THEN 200 ELSE 0)
                      + (IF output > 60000 THEN 300 ELSE 0))

\* The vector is prepared before the try block; only the model call and what
\* follows it are inside.
\* [features.get(col, 0.0) for col in feature_columns]
BuildOptimizer_prepare_feature_vector(f) ==
    [i \in 1..Len(BuildOptimizerFeatureColumns) |->
        Get(f, BuildOptimizerFeatureColumns[i], 0)]

\* [feature_vector]: what _predict_build_metrics hands to model.predict
BuildOptimizer_model_input(f) == [vector |-> BuildOptimizer_prepare_feature_vector(f)]

_predict_build_metrics(f, output, fault) ==
    IF model[BO] = None \/ ~is_trained[BO]
    THEN [path |-> "heuristic", result |-> BuildOptimizer_heuristic_prediction(f)]
    ELSE IF fault = "prepare" THEN [path |-> "model", result |-> Raise("Exception")]
    ELSE IF fault = "invoke"
    THEN [path |-> "fallback", result |-> BuildOptimizer_heuristic_prediction(f)]
    ELSE [path |-> "model",
          result |-> [build_time |-> Max(3000, output),
                      confidence |-> BuildOptimizer_calculate_confidence(f, output),
                      optimization_potential |->
                          _estimate_optimization_potential(f, output)]]

_recommend_cache_strategy(f) ==
    [enable_dependency_cache |-> TRUE,
     enable_build_cache      |-> TRUE,
     enable_test_cache       |-> TRUE,
     cache_layers |->
          (IF Val(f, "dependency_count", 0) > 10 THEN <<"dependency">> ELSE <<>>)
       \o (IF Val(f, "code_change_size", 0) < 100 THEN <<"build_artifacts">> ELSE <<>>)
       \o (IF Val(f, "test_count", 0) > 50 THEN <<"test_results">> ELSE <<>>)]

_recommend_resource_allocation(f, predictions) ==
    LET cpu_cores == IF predictions.build_time > 60000
                     THEN Min(8, Max(2, Val(f, "dependency_count", 0) \div 10))
                     ELSE 2
        memory_gb == IF Val(f, "package_size", 0) > 1000
                     THEN Min(16, Max(4, Val(f, "package_size", 0) \div 500))
                     ELSE 2
    IN  [cpu_cores |-> cpu_cores,
         memory_gb |-> memory_gb,
         disk_gb   |-> Max(20, Val(f, "package_size", 0) \div 100),
         estimated_cost_per_build |-> cpu_cores * 100 + memory_gb * 50]

\* The methods _generate_recommendations calls on self, in call order.
RecommendationCalls ==
    <<"_recommend_cache_strategy", "_recommend_resource_allocation",
      "_recommend_parallelization", "_recommend_dependency_optimizations",
      "_recommend_build_optimizations">>

\* A call of a method the class does not define raises AttributeError.
BuildOptimizer_generate_recommendations(r, f, predictions) ==
    IF \E i \in DOMAIN RecommendationCalls :
           RecommendationCalls[i] \notin BuildOptimizerMethods
    THEN Raise("AttributeError")
    ELSE [value |-> [cache_strategy      |-> _recommend_cache_strategy(f),
                     resource_allocation |->
                         _recommend_resource_allocation(f, predictions)]]

\* The whole of optimize_build.  effects lists the calls made on the cache
\* and metrics collaborators, in order; features is the extracted mapping.
optimize_build(r, output, fault) ==
    LET cache_key == _generate_cache_key(r)
    IN  IF cache_key \in DOMAIN cache
        THEN [op |-> "optimize_build", cache |-> "hit", path |-> "none",
              features |-> None, effects |-> <<>>, value |-> cache[cache_key]]
        ELSE
        LET f    == BuildOptimizer_extract_features(r)
            made == _predict_build_metrics(f, output, fault)
            p    == made.result
        IN  IF Raised(p)
            THEN [op |-> "optimize_build", cache |-> "miss", path |-> made.path,
                      features |-> f,
                  effects |-> <<"record_error">>, raised |-> p.raised]
            ELSE
            LET rec == BuildOptimizer_generate_recommendations(r, f, p)
            IN  IF Raised(rec)
                THEN [op |-> "optimize_build", cache |-> "miss", path |-> made.path,
                      features |-> f,
                      effects |-> <<"record_error">>, raised |-> rec.raised]
                ELSE [op |-> "optimize_build", cache |-> "miss", path |-> made.path,
                      features |-> f,
                      effects |-> <<"cache_set", "record_prediction_latency",
                                    "record_prediction_count">>,
                      value |-> [project_name           |-> r.project_name,
                                 estimated_build_time   |-> p.build_time,
                                 confidence_score       |-> p.confidence,
                                 recommendations        |-> rec.value,
                                 cache_strategy         |-> rec.value.cache_strategy,
                                 resource_allocation    |-> rec.value.resource_allocation,
                                 optimization_potential |-> p.optimization_potential,
                                 timestamp              |-> now]]

(***************************************************************************)
(* The services over their lifetime.  A behaviour follows one service      *)
(* instance and one caller input (the two instances share no state): the   *)
(* input is drawn at the start, and the service is initialized, trained    *)
(* and asked for predictions in any order.                                 *)
(***************************************************************************)

MaxPresent == 1

MaxClock == 3

MIN_TRAINING_SAMPLES == 1000

EmptyRecord == <<>>

\* One key of a mapping set to a value.
Put(d, key, value) == [k \in DOMAIN d \cup {key} |-> IF k = key THEN value ELSE d[k]]

Entry(section, value) == [section |-> section, value |-> value]

FieldEntry(section, field, value) ==
    [section |-> section, field |-> field, value |-> value]

\* What one entry of an input record may be: a sub-section that is no
\* mapping, a history, or one field of one sub-section.
Entries ==
         {Entry(sec, None) :
              sec \in {"code_metrics", "test_metrics", "deployment_metrics",
                       "infrastructure_metrics", "environment_metrics",
                       "dependency_metrics"}}
    \cup {Entry("code_metrics", Str)}
    \cup {Entry("duration_history", v) : v \in {None, Str, [list |-> <<100, 300>>]}}
    \cup {Entry("failure_history", v) :
              v \in {None, Str, [list |-> <<0>>], [list |-> <<1>>], [list |-> <<-1>>]}}
    \cup {FieldEntry("code_metrics", "lines_changed", v) : v \in {None, Str, Num(1200)}}
    \cup {FieldEntry("test_metrics", "coverage_percentage", v) : v \in {None, Num(79)}}
    \cup {FieldEntry("test_metrics", "flaky_tests", None)}
    \cup {FieldEntry("deployment_metrics", "deployments_per_day", None)}
    \cup {FieldEntry("infrastructure_metrics", "error_rate", v) : v \in {None, Num(6)}}
    \cup {FieldEntry("infrastructure_metrics", "cpu_utilization", None),
          FieldEntry("infrastructure_metrics", "memory_utilization", Str)}
    \cup {FieldEntry("environment_metrics", "timestamp", v) :
              v \in {None, Str, Num(5), [ts |-> [hour |-> 12, weekday |-> 5]]}}
    \cup {FieldEntry("dependency_metrics", "vulnerability_count", v) :
              v \in {None, Num(2)}}

\* The record with one more entry set.
WithEntry(pm, e) ==
    IF "field" \in DOMAIN e
    THEN LET sec == IF e.section \in DOMAIN pm /\ IsDict(pm[e.section])
                    THEN pm[e.section].dict ELSE <<>>
         IN  Put(pm, e.section, [dict |-> Put(sec, e.field, e.value)])
    ELSE Put(pm, e.section, e.value)

RECURSIVE RecordsUpTo(_)
RecordsUpTo(n) ==
    IF n = 0 THEN {EmptyRecord}
    ELSE LET smaller == RecordsUpTo(n - 1)
         IN  smaller \cup {WithEntry(pm, e) : pm \in smaller, e \in Entries}

\* The input of the specification's boundary scenario, as a record.
BoundaryRecord ==
    [failure_history |-> [list |-> <<1, 0, 0, 0>>],
     code_metrics |-> [dict |-> [lines_changed |-> Num(1200)]],
     test_metrics |-> [dict |-> [coverage_percentage |-> Num(65),
                                 flaky_tests |-> Num(6)]],
     infrastructure_metrics |-> [dict |-> [error_rate |-> Num(6),
                                           cpu_utilization |-> Num(95)]]]

PipelineInputs == RecordsUpTo(MaxPresent) \cup {BoundaryRecord}

CodeChanges(a, d, f) == [lines_added |-> a, lines_deleted |-> d, files_changed |-> f]

BuildRequests ==
    {[project_name |-> "p", dependencies |-> deps, code_changes |-> cc,
      test_files |-> tf, historical_data |-> hd, target_environment |-> env,
      build_config |-> bc] :
        deps \in {<<>>, <<2, 1>>, <<1, 2>>},
        cc \in {CodeChanges(0, 0, 0), CodeChanges(50, 20, 2), CodeChanges(400, 100, 5)},
        tf \in {None, [list |-> <<1>>]},
        hd \in {None, EmptyList,
                [list |-> <<[duration |-> 100, success |-> TRUE],
                            [duration |-> 301, success |-> FALSE]>>]},
        env \in {"development", "production"},
        bc \in {None, [dict |-> [parallel_jobs |-> Num(4)]]}}

\* A response left in the cache store by an earlier process.
StoredResponse(r) == [project_name |-> r.project_name, stored |-> TRUE]

\* What the network may return for a feature tensor (a sigmoid output).
ModelOutputs == {0, 99, 100, 299, 300, 599, 600, 1000}

\* What the regressor may return for a feature vector.
BuildOutputs == {2000, 5999, 6000, 30000, 180000, 180001}

PredictFaults == {"none", "prepare", "invoke"}

\* The model's output and its faults matter only when the model is consulted.
ModelChoices(s, outputs) ==
    IF model[s] # None /\ is_trained[s]
    THEN {[output |-> o, fault |-> "none"] : o \in outputs}
         \cup {[output |-> 0, fault |-> f] : f \in PredictFaults}
    ELSE {[output |-> 0, fault |-> "none"]}

Init ==
    /\ Constructed
    /\ \/ /\ pipeline_metrics \in PipelineInputs
          /\ request = None
          /\ cache = <<>>
       \/ /\ pipeline_metrics = None
          /\ request \in BuildRequests
          /\ cache \in {<<>>, [k \in {_generate_cache_key(request)} |->
                                   StoredResponse(request)]}
    /\ features = None
    /\ prediction = None
    /\ risk_factors = None
    /\ recommendations = None
    /\ generated = None
    /\ result = NoCall
    /\ ml_service_manager = None
    /\ ConfigImported
    /\ pc = "service"

Unchanged == UNCHANGED <<features, prediction, risk_factors, recommendations,
                         generated, pipeline_metrics, request, pc,
                         ml_service_manager, configState, loopState, epoch_loop>>

\* FailurePredictor.initialize: _load_model, then the feature names.
InitializeFailurePredictor ==
    /\ pipeline_metrics # None
    /\ is_trained' = [is_trained EXCEPT ![FP] = FALSE]
    /\ feature_names' = FailurePredictorFeatureColumns
    /\ result' = [op |-> "initialize", service |-> FP]
    /\ UNCHANGED <<model, scaler, last_training_time, model_metrics, now, cache>>
    /\ Unchanged

\* BuildOptimizer.initialize: _load_model, then the two collaborators.
InitializeBuildOptimizer ==
    /\ request # None
    /\ is_trained' = [is_trained EXCEPT ![BO] = FALSE]
    /\ result' = [op |-> "initialize", service |-> BO]
    /\ UNCHANGED <<model, scaler, last_training_time, feature_names, model_metrics,
                   now, cache>>
    /\ Unchanged

\* self.model.eval() is reached on the trained path once the feature tensor
\* has been built.
EvalReached(pm, fault) ==
    LET extracted == _extract_features(pm)
    IN  /\ ~Raised(extracted)
        /\ model[FP] # None /\ is_trained[FP]
        /\ fault # "prepare"
        /\ \A i \in DOMAIN _prepare_feature_vector(extracted.value) :
               IsNumber(_prepare_feature_vector(extracted.value)[i])

PredictFailure ==
    /\ pipeline_metrics # None
    /\ \E c \in ModelChoices(FP, ModelOutputs) :
           /\ result' = predict_failure(pipeline_metrics, c.output, c.fault)
           /\ model' = IF EvalReached(pipeline_metrics, c.fault)
                       THEN [model EXCEPT ![FP].mode = "eval"]
                       ELSE model
    /\ UNCHANGED <<is_trained, scaler, last_training_time, feature_names,
                   model_metrics, now, cache>>
    /\ Unchanged

\* The cache write of a request that is answered.
CacheAfter(r, res) ==
    IF res.cache = "miss" /\ ~Raised(res)
    THEN Put(cache, _generate_cache_key(r), res.value)
    ELSE cache

OptimizeBuild ==
    /\ request # None
    /\ \E c \in ModelChoices(BO, BuildOutputs) :
           /\ result' = optimize_build(request, c.output, c.fault)
           /\ cache' = CacheAfter(request, result')
    /\ UNCHANGED modelState
    /\ Unchanged

TrainFaults == {"none", "split", "scaler", "fit", "evaluate"}

TrainingRun(samples, malformed, fault) ==
    [samples |-> samples, malformed |-> malformed, fault |-> fault]

\* The training calls: too few samples, a malformed record, or enough
\* well-formed samples and a step that raises (or none).
TrainingRuns ==
    {TrainingRun(0, FALSE, "none"), TrainingRun(MIN_TRAINING_SAMPLES - 1, FALSE, "none"),
     TrainingRun(MIN_TRAINING_SAMPLES, TRUE, "none")}
    \cup {TrainingRun(MIN_TRAINING_SAMPLES, FALSE, f) : f \in TrainFaults}

Unfitted == [fitted_by |-> 0]

Mut_InsufficientTrainingData(n) == n + 1 < MIN_TRAINING_SAMPLES

\* if len(X) < self.settings.MIN_TRAINING_SAMPLES
InsufficientTrainingData(n) == n < MIN_TRAINING_SAMPLES

\* FailurePredictor.train_model on `samples` records, `malformed` when one of
\* them lacks "metrics" or "failed"; `fault` is the step that raises.  The
\* scaler is refitted in place and self.model is replaced before the epoch
\* loop, which leaves the network in training mode when it raises; with no
\* feature name the samples have no column and the scaler rejects them;
\* is_trained, last_training_time and model_metrics are set at the end.
TrainFailurePredictor(samples, malformed, fault) ==
    /\ pipeline_metrics # None
    /\ now < MaxClock
    /\ now' = now + 1
    /\ IF malformed
       THEN /\ result' = [op |-> "train_model", service |-> FP, raised |-> "KeyError"]
            /\ UNCHANGED <<is_trained, model, scaler, last_training_time, model_metrics>>
       ELSE IF InsufficientTrainingData(samples)
       THEN /\ result' = [op |-> "train_model", service |-> FP, raised |-> "ValueError"]
            /\ UNCHANGED <<is_trained, model, scaler, last_training_time, model_metrics>>
       ELSE IF fault = "split"
       THEN /\ result' = [op |-> "train_model", service |-> FP, raised |-> "Exception"]
            /\ UNCHANGED <<is_trained, model, scaler, last_training_time, model_metrics>>
       ELSE IF fault = "scaler" \/ feature_names = <<>>
       THEN /\ result' = [op |-> "train_model", service |-> FP, raised |-> "Exception"]
            /\ scaler' \in {scaler, [scaler EXCEPT ![FP] = Unfitted]}
            /\ UNCHANGED <<is_trained, model, last_training_time, model_metrics>>
       ELSE IF fault \in {"fit", "evaluate"}
       THEN /\ result' = [op |-> "train_model", service |-> FP, raised |-> "Exception"]
            /\ scaler' = [scaler EXCEPT ![FP] = [fitted_by |-> now]]
            /\ model' = [model EXCEPT ![FP] =
                            [run |-> now,
                             fit  |-> IF fault = "fit" THEN "partial" ELSE "done",
                             mode |-> IF fault = "fit" THEN "train" ELSE "eval"]]
            /\ UNCHANGED <<is_trained, last_training_time, model_metrics>>
       ELSE /\ scaler' = [scaler EXCEPT ![FP] = [fitted_by |-> now]]
            /\ model' = [model EXCEPT ![FP] =
                            [run |-> now, fit |-> "done", mode |-> "eval"]]
            /\ is_trained' = [is_trained EXCEPT ![FP] = TRUE]
            /\ last_training_time' = [last_training_time EXCEPT ![FP] = [time |-> now]]
            /\ model_metrics' = [k \in {"precision", "recall", "f1_score", "auc_score"}
                                    |-> now]
            /\ result' = [op |-> "train_model", service |-> FP, value |-> model_metrics']
    /\ UNCHANGED <<feature_names, cache>>
    /\ Unchanged

BuildTrainFaults == TrainFaults \cup {"record"}

\* BuildOptimizer.train_model on `samples` records: _prepare_training_data
\* calls _extract_features_from_build_data for every record, a method the
\* class does not define; with no record the sample check raises.  Past the
\* check the scaler is refitted in place, self.model is replaced and fitted,
\* is_trained and last_training_time are set, and only then the model is saved
\* (which raises nothing) and the metrics collaborator records the run.
TrainBuildOptimizer(samples, fault) ==
    /\ request # None
    /\ now < MaxClock
    /\ now' = now + 1
    /\ LET raises(kind) == result' = [op |-> "train_model", service |-> BO,
                                      raised |-> kind, effects |-> <<"record_error">>]
       IN  IF samples > 0 /\ "_extract_features_from_build_data" \notin BuildOptimizerMethods
           THEN /\ raises("AttributeError")
                /\ UNCHANGED <<is_trained, model, scaler, last_training_time>>
           ELSE IF InsufficientTrainingData(samples)
           THEN /\ raises("ValueError")
                /\ UNCHANGED <<is_trained, model, scaler, last_training_time>>
           ELSE IF fault = "split"
           THEN /\ raises("Exception")
                /\ UNCHANGED <<is_trained, model, scaler, last_training_time>>
           ELSE IF fault = "scaler"
           THEN /\ raises("Exception")
                /\ scaler' \in {scaler, [scaler EXCEPT ![BO] = Unfitted]}
                /\ UNCHANGED <<is_trained, model, last_training_time>>
           ELSE IF fault \in {"fit", "evaluate"}
           THEN /\ raises("Exception")
                /\ scaler' = [scaler EXCEPT ![BO] = [fitted_by |-> now]]
                /\ model' = [model EXCEPT ![BO] =
                                [run |-> now,
                                 fit |-> IF fault = "fit" THEN "partial" ELSE "done"]]
                /\ UNCHANGED <<is_trained, last_training_time>>
           ELSE /\ scaler' = [scaler EXCEPT ![BO] = [fitted_by |-> now]]
                /\ model' = [model EXCEPT ![BO] = [run |-> now, fit |-> "done"]]
                /\ is_trained' = [is_trained EXCEPT ![BO] = TRUE]
                /\ last_training_time' =
                      [last_training_time EXCEPT ![BO] = [time |-> now]]
                /\ IF fault = "record"
                   THEN raises("Exception")
                   ELSE result' = [op |-> "train_model", service |-> BO,
                                   effects |-> <<"record_training_metrics">>,
                                   value |-> [training_samples |-> samples,
                                              training_time |-> now]]
    /\ UNCHANGED <<feature_names, model_metrics, cache>>
    /\ Unchanged

\* What CacheManager.health_check reports.
CacheStatus == [py |-> "cache_status"]

HealthCheckFailurePredictor ==
    /\ pipeline_metrics # None
    /\ result' = [op |-> "health_check", service |-> FP,
                  value |-> [service       |-> FP,
                             status        |-> "healthy",
                             model_trained |-> is_trained[FP],
                             last_training |->
                                 IF last_training_time[FP] # None
                                 THEN isoformat(last_training_time[FP].time)
                                 ELSE None,
                             model_metrics |-> model_metrics]]
    /\ UNCHANGED <<modelState, cache>>
    /\ Unchanged

HealthCheckBuildOptimizer ==
    /\ request # None
    /\ result' = [op |-> "health_check", service |-> BO,
                  value |-> [service       |-> BO,
                             status        |-> "healthy",
                             model_trained |-> is_trained[BO],
                             last_training |->
                                 IF last_training_time[BO] # None
                                 THEN isoformat(last_training_time[BO].time)
                                 ELSE None,
                             cache_status  |-> CacheStatus]]
    /\ UNCHANGED <<modelState, cache>>
    /\ Unchanged

Next ==
    \/ HealthCheckFailurePredictor
    \/ HealthCheckBuildOptimizer
    \/ InitializeFailurePredictor
    \/ InitializeBuildOptimizer
    \/ PredictFailure
    \/ OptimizeBuild
    \/ \E t \in TrainingRuns : TrainFailurePredictor(t.samples, t.malformed, t.fault)
    \/ \E samples \in {0, MIN_TRAINING_SAMPLES - 1, MIN_TRAINING_SAMPLES},
          fault \in BuildTrainFaults : TrainBuildOptimizer(samples, fault)

Spec == Init /\ [][Next]_vars

(***************************************************************************)
(* The services on an asyncio event loop.  Each task awaits one            *)
(* train_model call on the shared instance of its service.  The loop runs  *)
(* one task at a time and changes task only where the running one          *)
(* suspends: at an await that reaches a collaborator doing I/O.  An await  *)
(* of a coroutine of the class itself (_prepare_training_data,             *)
(* _save_model) runs that coroutine to its end without suspending, since   *)
(* none of them awaits anything but each other.  pc is the statement the   *)
(* task executes next.                                                     *)
(***************************************************************************)

\* The awaits of train_model and whether the awaited call can suspend.
SuspensionOutcomes(callee) ==
    IF callee \in {"record_training_metrics", "record_error"}
    THEN {FALSE, TRUE}
    ELSE {FALSE}

TrainCall(service, samples, fault) ==
    [service |-> service, samples |-> samples, fault |-> fault, pc |-> "created"]

\* The train_model calls given to the loop.
TrainCalls ==
    {TrainCall(FP, n, f) : n \in {0, MIN_TRAINING_SAMPLES}, f \in TrainFaults}
    \cup {TrainCall(BO, n, "none") : n \in {0, MIN_TRAINING_SAMPLES}}

\* The call has entered the body of train_model and has neither returned nor
\* raised.
InProgress(t) == tasks[t].pc \notin {"none", "created", "returned", "raised"}

LoopUnchanged ==
    UNCHANGED <<features, prediction, risk_factors, recommendations, generated,
                pipeline_metrics, request, pc, ml_service_manager, configState,
                epoch_loop>>

\* asyncio.create_task(service.train_model(training_data))
CreateTask(t, call) ==
    /\ tasks[t] = NoTask
    /\ tasks' = [tasks EXCEPT ![t] = call]
    /\ UNCHANGED <<modelState, running, result, cache>>
    /\ LoopUnchanged

\* FailurePredictor.initialize, called while no task is running.
InitializeOnLoop ==
    /\ running = 0
    /\ feature_names = <<>>
    /\ is_trained' = [is_trained EXCEPT ![FP] = FALSE]
    /\ feature_names' = FailurePredictorFeatureColumns
    /\ result' = [op |-> "initialize", service |-> FP]
    /\ UNCHANGED <<model, scaler, last_training_time, model_metrics, now, cache,
                   tasks, running>>
    /\ LoopUnchanged

\* The task moves to statement `next`; it keeps the loop unless it suspends.
Goes(t, next, suspends) ==
    /\ tasks' = [tasks EXCEPT ![t].pc = next]
    /\ running' = IF suspends THEN 0 ELSE t
    /\ UNCHANGED result

\* The call ends: it returns `value` or raises `kind`.
Returns(t, value) ==
    /\ tasks' = [tasks EXCEPT ![t].pc = "returned"]
    /\ running' = 0
    /\ result' = [op |-> "train_model", service |-> tasks[t].service, task |-> t,
                  value |-> value]

Raises(t, kind) ==
    /\ tasks' = [tasks EXCEPT ![t].pc = "raised"]
    /\ running' = 0
    /\ result' = [op |-> "train_model", service |-> tasks[t].service, task |-> t,
                  raised |-> kind]

\* One statement of FailurePredictor.train_model in task t.
FailurePredictorStep(t) ==
    LET call == tasks[t]
    IN  CASE call.pc = "created" ->
               /\ Goes(t, "check", FALSE)
               /\ UNCHANGED <<is_trained, model, scaler, last_training_time,
                              model_metrics, now>>
          [] call.pc = "check" ->
               /\ IF InsufficientTrainingData(call.samples)
                  THEN Raises(t, "ValueError")
                  ELSE Goes(t, "split", FALSE)
               /\ UNCHANGED <<is_trained, model, scaler, last_training_time,
                              model_metrics, now>>
          [] call.pc = "split" ->
               /\ IF call.fault = "split"
                  THEN Raises(t, "Exception")
                  ELSE Goes(t, "scale", FALSE)
               /\ UNCHANGED <<is_trained, model, scaler, last_training_time,
                              model_metrics, now>>
          [] call.pc = "scale" ->
               /\ IF call.fault = "scaler" \/ feature_names = <<>>
                  THEN /\ Raises(t, "Exception")
                       /\ scaler' \in {scaler, [scaler EXCEPT ![FP] = Unfitted]}
                  ELSE /\ Goes(t, "model", FALSE)
                       /\ scaler' = [scaler EXCEPT ![FP] = [fitted_by |-> t]]
               /\ UNCHANGED <<is_trained, model, last_training_time,
                              model_metrics, now>>
          [] call.pc = "model" ->
               /\ Goes(t, "epochs", FALSE)
               /\ model' = [model EXCEPT ![FP] =
                               [run |-> t, fit |-> "none", mode |-> "train"]]
               /\ UNCHANGED <<is_trained, scaler, last_training_time,
                              model_metrics, now>>
          [] call.pc = "epochs" ->
               /\ IF call.fault = "fit"
                  THEN /\ Raises(t, "Exception")
                       /\ model' = [model EXCEPT ![FP].fit = "partial"]
                  ELSE /\ \E suspends \in SuspensionOutcomes("_save_model") :
                              Goes(t, "evaluate", suspends)
                       /\ model' = [model EXCEPT ![FP].fit = "done",
                                                 ![FP].mode = "eval"]
               /\ UNCHANGED <<is_trained, scaler, last_training_time,
                              model_metrics, now>>
          [] call.pc = "evaluate" ->
               /\ IF call.fault = "evaluate"
                  THEN Raises(t, "Exception")
                  ELSE Goes(t, "update", FALSE)
               /\ model' = [model EXCEPT ![FP].mode = "eval"]
               /\ UNCHANGED <<is_trained, scaler, last_training_time,
                              model_metrics, now>>
          [] call.pc = "update" ->
               /\ is_trained' = [is_trained EXCEPT ![FP] = TRUE]
               /\ last_training_time' =
                      [last_training_time EXCEPT ![FP] = [time |-> now]]
               /\ model_metrics' = [k \in {"precision", "recall", "f1_score",
                                           "auc_score"} |-> t]
               /\ now' = now + 1
               /\ Returns(t, model_metrics')
               /\ UNCHANGED <<model, scaler>>

\* One statement of BuildOptimizer.train_model in task t; an exception is
\* handled by awaiting metrics.record_error and raised again.
BuildOptimizerStep(t) ==
    LET call == tasks[t]
        handle == \E suspends \in SuspensionOutcomes("record_error") :
                      Goes(t, "reraise", suspends)
    IN  CASE call.pc = "created" ->
               /\ IF /\ call.samples > 0
                     /\ "_extract_features_from_build_data" \notin BuildOptimizerMethods
                  THEN handle
                  ELSE Goes(t, "check", FALSE)
               /\ UNCHANGED <<is_trained, model, scaler, last_training_time, now>>
          [] call.pc = "check" ->
               /\ IF InsufficientTrainingData(call.samples)
                  THEN handle
                  ELSE Goes(t, "scale", FALSE)
               /\ UNCHANGED <<is_trained, model, scaler, last_training_time, now>>
          [] call.pc = "scale" ->
               /\ Goes(t, "model", FALSE)
               /\ scaler' = [scaler EXCEPT ![BO] = [fitted_by |-> t]]
               /\ UNCHANGED <<is_trained, model, last_training_time, now>>
          [] call.pc = "model" ->
               /\ Goes(t, "update", FALSE)
               /\ model' = [model EXCEPT ![BO] = [run |-> t, fit |-> "done"]]
               /\ UNCHANGED <<is_trained, scaler, last_training_time, now>>
          [] call.pc = "update" ->
               /\ is_trained' = [is_trained EXCEPT ![BO] = TRUE]
               /\ last_training_time' =
                      [last_training_time EXCEPT ![BO] = [time |-> now]]
               /\ now' = now + 1
               /\ \E suspends \in SuspensionOutcomes("_save_model") :
                      Goes(t, "record", suspends)
               /\ UNCHANGED <<model, scaler>>
          [] call.pc = "record" ->
               /\ \E suspends \in SuspensionOutcomes("record_training_metrics") :
                      Goes(t, "return", suspends)
               /\ UNCHANGED <<is_trained, model, scaler, last_training_time, now>>
          [] call.pc = "return" ->
               /\ Returns(t, [training_samples |-> call.samples])
               /\ UNCHANGED <<is_trained, model, scaler, last_training_time, now>>
          [] call.pc = "reraise" ->
               /\ Raises(t, IF call.samples > 0 THEN "AttributeError" ELSE "ValueError")
               /\ UNCHANGED <<is_trained, model, scaler, last_training_time, now>>

\* The loop runs the next statement of task t: of the running task, or of
\* any task that is ready when none is running.
RunTask(t) ==
    /\ tasks[t].pc \notin {"none", "returned", "raised"}
    /\ running = t \/ running = 0
    /\ IF tasks[t].service = FP
       THEN FailurePredictorStep(t)
       ELSE BuildOptimizerStep(t) /\ UNCHANGED model_metrics
    /\ UNCHANGED <<feature_names, cache>>
    /\ LoopUnchanged

InitLoop ==
    /\ Constructed
    /\ ConfigImported
    /\ features = None
    /\ prediction = None
    /\ risk_factors = None
    /\ recommendations = None
    /\ generated = None
    /\ pipeline_metrics = None
    /\ request = None
    /\ cache = <<>>
    /\ result = NoCall
    /\ ml_service_manager = None
    /\ pc = "loop"

NextLoop ==
    \/ InitializeOnLoop
    \/ \E t \in TaskIds, call \in TrainCalls : CreateTask(t, call)
    \/ \E t \in TaskIds : RunTask(t)

SpecLoop == InitLoop /\ [][NextLoop]_vars

(***************************************************************************)
(* The epoch loop of FailurePredictor.train_model.  The validation loss of *)
(* each epoch is the input; `params` names the epoch whose training left   *)
(* the parameters self.model holds, `saved` the epoch whose parameters     *)
(* _save_model wrote last (0: none).                                       *)
(***************************************************************************)

\* config["training"]["epochs"] and ["early_stopping_patience"] (100 and 10
\* in the configuration), scaled down.
epochs == 4

early_stopping_patience == 2

LossValues == {1, 2, 3}

\* float('inf')
Infinity == [float |-> "inf"]

\* val_loss < best_loss
LossBelow(val_loss, best_loss) ==
    IF best_loss = Infinity THEN TRUE ELSE val_loss < best_loss.loss

LossSequences == [1..epochs -> LossValues]

InitTraining ==
    /\ Constructed
    /\ environ = Absent
    /\ settings_cache = None
    /\ settings_made = 0
    /\ tasks = [t \in TaskIds |-> NoTask]
    /\ running = 0
    /\ features = None
    /\ prediction = None
    /\ risk_factors = None
    /\ recommendations = None
    /\ generated = None
    /\ pipeline_metrics = None
    /\ request = None
    /\ cache = <<>>
    /\ result = NoCall
    /\ ml_service_manager = None
    /\ pc = "training"
    /\ \E losses \in LossSequences :
           epoch_loop = [losses |-> losses, epoch |-> 0, best_loss |-> Infinity,
                         patience_counter |-> 0, params |-> 0, saved |-> 0,
                         pc |-> "loop"]

TrainingUnchanged ==
    UNCHANGED <<modelState, features, prediction, risk_factors, recommendations,
                generated, pipeline_metrics, request, cache, result, pc,
                ml_service_manager, configState, loopState>>

\* One iteration of `for epoch in range(epochs)`: the training phase updates
\* the parameters of self.model, the validation phase computes val_loss, and
\* the early-stopping test saves the model or counts the epoch and breaks.
RunEpoch ==
    /\ epoch_loop.pc = "loop"
    /\ epoch_loop.epoch < epochs
    /\ LET epoch    == epoch_loop.epoch + 1
           val_loss == epoch_loop.losses[epoch]
           improved == LossBelow(val_loss, epoch_loop.best_loss)
           counter  == IF improved THEN 0 ELSE epoch_loop.patience_counter + 1
           stop     == ~improved /\ counter >= early_stopping_patience
       IN  epoch_loop' =
               [epoch_loop EXCEPT
                   !.epoch = epoch,
                   !.params = epoch,
                   !.best_loss = IF improved THEN [loss |-> val_loss] ELSE @,
                   !.patience_counter = counter,
                   !.saved = IF improved THEN epoch ELSE @,
                   !.pc = IF stop \/ epoch = epochs THEN "evaluate" ELSE "loop"]
    /\ TrainingUnchanged

\* After the loop the metrics are computed from self.model as the loop left
\* it, and the Model State is updated.
EvaluateModel ==
    /\ epoch_loop.pc = "evaluate"
    /\ epoch_loop' = [epoch_loop EXCEPT !.pc = "trained"]
    /\ TrainingUnchanged

NextTraining ==
    \/ RunEpoch
    \/ EvaluateModel

SpecTraining == InitTraining /\ [][NextTraining]_vars

(***************************************************************************)
(* The confidence of the build optimizer's trained path, as a function of  *)
(* the request and of the build time the model predicts for it.            *)
(***************************************************************************)

InitConfidence ==
    /\ Constructed
    /\ ConfigImported
    /\ features = None
    /\ prediction = None
    /\ risk_factors = None
    /\ recommendations = None
    /\ generated = None
    /\ pipeline_metrics = None
    /\ request \in BuildRequests
    /\ cache = <<>>
    /\ result = NoCall
    /\ ml_service_manager = None
    /\ pc = "request"

ConfidenceUnchanged ==
    UNCHANGED <<modelState, risk_factors, recommendations, generated,
                pipeline_metrics, request, cache, ml_service_manager,
                configState, loopState, epoch_loop>>

\* features = await self._extract_features(request)
ExtractBuildFeatures ==
    /\ pc = "request"
    /\ features' = BuildOptimizer_extract_features(request)
    /\ pc' = "features"
    /\ UNCHANGED <<prediction, result>>
    /\ ConfidenceUnchanged

\* prediction = self.model.predict([feature_vector])[0]
ModelPredicts(output) ==
    /\ pc = "features"
    /\ prediction' = Num(output)
    /\ pc' = "predicted"
    /\ UNCHANGED <<features, result>>
    /\ ConfidenceUnchanged

\* confidence = await self._calculate_confidence(features, prediction)
CalculateConfidence ==
    /\ pc = "predicted"
    /\ result' = [op |-> "_calculate_confidence",
                  value |-> BuildOptimizer_calculate_confidence(features,
                                                                prediction.num)]
    /\ pc' = "confidence"
    /\ UNCHANGED <<features, prediction>>
    /\ ConfidenceUnchanged

NextConfidence ==
    \/ ExtractBuildFeatures
    \/ \E output \in BuildOutputs : ModelPredicts(output)
    \/ CalculateConfidence

SpecConfidence == InitConfidence /\ [][NextConfidence]_vars

(***************************************************************************)
(* The application: the global service manager, its lifespan and the       *)
(* endpoints that use it.  A response is [op, status, body or detail] with  *)
(* calls, the manager methods the endpoint called and what each returned   *)
(* or raised.                                                              *)
(***************************************************************************)

\* models_to_load of MLServiceManager._load_models
ModelsToLoad == {"build_optimizer", "failure_predictor", "test_selector"}

\* The names a caller may put in the path of the retrain endpoint.
ModelNames ==
    ModelsToLoad \cup {"invalid_model", "test_intelligence", "Build_Optimizer", ""}

LoadedModel(name) ==
    [name |-> name, version |-> "1.0.0", loaded |-> TRUE, accuracy |-> 89]

\* MLServiceManager() after initialize()
InitializedManager ==
    [models |-> [name \in ModelsToLoad |-> LoadedModel(name)], initialized |-> TRUE]

\* MLServiceManager()
MLServiceManager_new == [models |-> <<>>, initialized |-> FALSE]

\* MLServiceManager._load_models: self.models[model_name] = {...} for each
\* name to load
_load_models(models) ==
    [name \in DOMAIN models \cup ModelsToLoad |->
        IF name \in ModelsToLoad THEN LoadedModel(name) ELSE models[name]]

\* MLServiceManager.initialize
MLServiceManager_initialize(m) ==
    [models |-> _load_models(m.models), initialized |-> TRUE]

Mut_CleanedManager(m) == [models |-> m.models, initialized |-> FALSE]

\* MLServiceManager.cleanup
CleanedManager(m) == [models |-> <<>>, initialized |-> FALSE]

MLServiceManager_health_check(m) ==
    IF ~m.initialized
    THEN [healthy |-> FALSE, reason |-> "Service not initialized"]
    ELSE [healthy |-> TRUE, models_loaded |-> Cardinality(DOMAIN m.models),
          models |-> DOMAIN m.models]

MLServiceManager_get_models_status(m) ==
    [models |-> {[name |-> name, status |-> "loaded",
                  version |-> m.models[name].version,
                  accuracy |-> m.models[name].accuracy] : name \in DOMAIN m.models}]

Mut_MLServiceManager_retrain_model(m, model_name, fault) ==
    IF fault # "none" THEN Raise(fault)
    ELSE [value |-> [task |-> "retrain", model |-> model_name, time |-> now]]

\* `fault` is an error of the retraining trigger itself.
MLServiceManager_retrain_model(m, model_name, fault) ==
    IF model_name \notin DOMAIN m.models THEN Raise("ValueError")
    ELSE IF fault # "none" THEN Raise(fault)
    ELSE [value |-> [task |-> "retrain", model |-> model_name, time |-> now]]

Call(method, outcome) == [method |-> method, outcome |-> outcome]

Unavailable(op) ==
    [op |-> op, status |-> 503, detail |-> "ML services not initialized",
     calls |-> <<>>]

Mut_health_check ==
    IF ml_service_manager = None THEN Unavailable("GET /health")
    ELSE LET health_status == MLServiceManager_health_check(ml_service_manager)
         IN  [op |-> "GET /health", status |-> 200, body |-> health_status,
              calls |-> <<Call("health_check", health_status)>>]

\* GET /health
health_check ==
    IF ml_service_manager = None THEN Unavailable("GET /health")
    ELSE LET health_status == MLServiceManager_health_check(ml_service_manager)
         IN  IF ~health_status.healthy
             THEN [op |-> "GET /health", status |-> 503, detail |-> health_status,
                   calls |-> <<Call("health_check", health_status)>>]
             ELSE [op |-> "GET /health", status |-> 200, body |-> health_status,
                   calls |-> <<Call("health_check", health_status)>>]

\* GET /models/status
models_status ==
    IF ml_service_manager = None THEN Unavailable("GET /models/status")
    ELSE LET status == MLServiceManager_get_models_status(ml_service_manager)
         IN  [op |-> "GET /models/status", status |-> 200, body |-> status,
              calls |-> <<Call("get_models_status", status)>>]

\* POST /models/retrain/{model_name}
retrain_model(model_name, fault) ==
    IF ml_service_manager = None
    THEN Unavailable("POST /models/retrain") @@ [model_name |-> model_name]
    ELSE LET outcome == MLServiceManager_retrain_model(ml_service_manager,
                                                       model_name, fault)
             called  == <<Call("retrain_model", outcome)>>
         IN  IF ~Raised(outcome)
             THEN [op |-> "POST /models/retrain", model_name |-> model_name,
                   status |-> 200, calls |-> called,
                   body |-> [message |-> model_name, task_id |-> outcome.value]]
             ELSE IF outcome.raised = "ValueError"
             THEN [op |-> "POST /models/retrain", model_name |-> model_name,
                   status |-> 404, calls |-> called, detail |-> "ValueError"]
             ELSE [op |-> "POST /models/retrain", model_name |-> model_name,
                   status |-> 500, calls |-> called,
                   detail |-> "Failed to trigger retraining"]

RetrainFaults == {"none", "RuntimeError", "TimeoutError"}

(***************************************************************************)
(* The application's settings (core.config) and create_app.  A string of    *)
(* the environment is [value |-> s]; a URL path of the app is [path |-> p]. *)
(***************************************************************************)

EnvValue(s) == [value |-> s]

Path(p) == [path |-> p]

\* The values a deployment gives ENVIRONMENT.
Environments == {EnvValue("development"), EnvValue("production"), EnvValue("staging")}

\* The bound on the number of Settings instances constructed.
MaxSettings == 2

\* The fields of class Settings; it has no other attribute.
SettingsAttributes ==
    {"APP_NAME", "VERSION", "ENVIRONMENT", "DEBUG", "HOST", "PORT", "WORKERS",
     "LOG_LEVEL", "LOG_FORMAT", "SECRET_KEY", "ALLOWED_ORIGINS", "DATABASE_URL",
     "REDIS_URL", "MODEL_REGISTRY_URL", "MODEL_STORAGE_PATH",
     "BUILD_OPTIMIZER_MODEL_NAME", "FAILURE_PREDICTOR_MODEL_NAME",
     "TEST_INTELLIGENCE_MODEL_NAME", "AUTO_RETRAIN", "RETRAIN_THRESHOLD",
     "MIN_TRAINING_SAMPLES", "PIPELINE_ENGINE_URL", "PIPELINE_ENGINE_API_KEY",
     "TEKTON_NAMESPACE", "TEKTON_DASHBOARD_URL", "ARGOCD_SERVER", "ARGOCD_TOKEN",
     "PROMETHEUS_URL", "JAEGER_ENDPOINT", "ENABLE_PROMETHEUS_METRICS",
     "ENABLE_DISTRIBUTED_TRACING", "ENABLE_MODEL_EXPLANATIONS",
     "MAX_CONCURRENT_PREDICTIONS", "PREDICTION_TIMEOUT", "CACHE_TTL",
     "MAX_BATCH_SIZE", "FEATURE_EXTRACTION_TIMEOUT"}

\* Settings(): the instance numbered id, its ENVIRONMENT read from os.environ
\* at construction.
Settings(id) ==
    [id |-> id,
     ENVIRONMENT |-> IF environ = Absent THEN "development" ELSE environ.value]

\* get_settings under lru_cache: the cached instance if there is one.
get_settings ==
    IF settings_cache # None THEN settings_cache ELSE Settings(settings_made + 1)

\* FastAPI(...) as create_app calls it
FastAPI(settings) ==
    [docs_url  |-> IF settings.ENVIRONMENT # "production" THEN Path("/docs") ELSE None,
     redoc_url |-> IF settings.ENVIRONMENT # "production" THEN Path("/redoc") ELSE None]

\* create_app: the app is constructed from the settings, then the CORS
\* middleware reads settings.allowed_origins.
create_app ==
    LET settings == get_settings
        app == FastAPI(settings)
    IN  IF "allowed_origins" \notin SettingsAttributes
        THEN [op |-> "create_app", app |-> app, raised |-> "AttributeError"]
        ELSE [op |-> "create_app", app |-> app, value |-> app]

\* The bound on the event loop's clock, which `now` stands for here.
MaxLoopTime == 4

InitApp ==
    /\ Constructed
    /\ features = None
    /\ prediction = None
    /\ risk_factors = None
    /\ recommendations = None
    /\ generated = None
    /\ pipeline_metrics = None
    /\ request = None
    /\ cache = <<>>
    /\ result = NoCall
    /\ pc = "app"
    /\ ml_service_manager = None
    /\ ConfigImported

AppUnchanged ==
    UNCHANGED <<is_trained, model, scaler, last_training_time, feature_names,
                model_metrics, features, prediction, risk_factors,
                recommendations, generated, pipeline_metrics, request, cache, pc,
                loopState, epoch_loop>>

\* os.environ["ENVIRONMENT"] is set, or deleted (Absent).
SetEnvironment(e) ==
    /\ e # environ
    /\ environ' = e
    /\ result' = [op |-> "setenv"]
    /\ UNCHANGED <<settings_cache, settings_made, ml_service_manager, now>>
    /\ AppUnchanged

\* What a call of get_settings leaves in the cache.
SettingsCached ==
    /\ settings_cache = None => settings_made < MaxSettings
    /\ settings_cache' = get_settings
    /\ settings_made' = IF settings_cache = None THEN settings_made + 1
                        ELSE settings_made

GetSettings ==
    /\ SettingsCached
    /\ result' = [op |-> "get_settings", value |-> get_settings]
    /\ UNCHANGED <<environ, ml_service_manager, now>>
    /\ AppUnchanged

\* get_settings.cache_clear()
CacheClear ==
    /\ settings_cache # None
    /\ settings_cache' = None
    /\ result' = [op |-> "cache_clear"]
    /\ UNCHANGED <<environ, settings_made, ml_service_manager, now>>
    /\ AppUnchanged

CreateApp ==
    /\ SettingsCached
    /\ result' = create_app
    /\ UNCHANGED <<environ, ml_service_manager, now>>
    /\ AppUnchanged

\* lifespan, before the yield: a new manager is made global and initialized.
Startup ==
    /\ IF ml_service_manager = None THEN TRUE ELSE ~ml_service_manager.initialized
    /\ ml_service_manager' = InitializedManager
    /\ result' = [op |-> "startup"]
    /\ UNCHANGED <<now, configState>>
    /\ AppUnchanged

\* lifespan, after the yield: the manager is cleaned up and stays global.
Shutdown ==
    /\ ml_service_manager # None
    /\ ml_service_manager.initialized
    /\ ml_service_manager' = CleanedManager(ml_service_manager)
    /\ result' = [op |-> "shutdown"]
    /\ UNCHANGED <<now, configState>>
    /\ AppUnchanged

GetHealth ==
    /\ result' = health_check
    /\ UNCHANGED <<ml_service_manager, now, configState>>
    /\ AppUnchanged

GetModelsStatus ==
    /\ result' = models_status
    /\ UNCHANGED <<ml_service_manager, now, configState>>
    /\ AppUnchanged

\* The event loop's clock, read for the task id, has moved on at the next call.
PostRetrain(model_name, fault) ==
    /\ now < MaxLoopTime
    /\ result' = retrain_model(model_name, fault)
    /\ now' = now + 1
    /\ UNCHANGED <<ml_service_manager, configState>>
    /\ AppUnchanged

NextApp ==
    \/ Startup
    \/ Shutdown
    \/ GetHealth
    \/ GetModelsStatus
    \/ \E model_name \in ModelNames, fault \in RetrainFaults :
           PostRetrain(model_name, fault)
    \/ \E e \in Environments \cup {Absent} : SetEnvironment(e)
    \/ GetSettings
    \/ CacheClear
    \/ CreateApp

SpecApp == InitApp /\ [][NextApp]_vars

(***************************************************************************)
(* One MLServiceManager object under any sequence of calls of its methods. *)
(* The event loop's clock, which retrain_model reads for the task id, moves *)
(* on between calls.                                                       *)
(***************************************************************************)

InitManager ==
    /\ Constructed
    /\ ConfigImported
    /\ features = None
    /\ prediction = None
    /\ risk_factors = None
    /\ recommendations = None
    /\ generated = None
    /\ pipeline_metrics = None
    /\ request = None
    /\ cache = <<>>
    /\ result = NoCall
    /\ pc = "manager"
    /\ ml_service_manager = MLServiceManager_new

ManagerUnchanged ==
    /\ AppUnchanged
    /\ UNCHANGED configState

ManagerInitialize ==
    /\ ml_service_manager' = MLServiceManager_initialize(ml_service_manager)
    /\ result' = [op |-> "initialize"]
    /\ UNCHANGED now
    /\ ManagerUnchanged

ManagerCleanup ==
    /\ ml_service_manager' = CleanedManager(ml_service_manager)
    /\ result' = [op |-> "cleanup"]
    /\ UNCHANGED now
    /\ ManagerUnchanged

ManagerHealthCheck ==
    /\ result' = [op |-> "health_check",
                  value |-> MLServiceManager_health_check(ml_service_manager)]
    /\ UNCHANGED <<ml_service_manager, now>>
    /\ ManagerUnchanged

ManagerGetModelsStatus ==
    /\ result' = [op |-> "get_models_status",
                  value |-> MLServiceManager_get_models_status(ml_service_manager)]
    /\ UNCHANGED <<ml_service_manager, now>>
    /\ ManagerUnchanged

ManagerRetrain(model_name, fault) ==
    /\ result' = [op |-> "retrain_model", model_name |-> model_name] @@
                 MLServiceManager_retrain_model(ml_service_manager, model_name, fault)
    /\ UNCHANGED <<ml_service_manager, now>>
    /\ ManagerUnchanged

\* asyncio.get_event_loop().time() has moved on.
LoopTimePasses ==
    /\ now < MaxLoopTime
    /\ now' = now + 1
    /\ UNCHANGED <<ml_service_manager, result>>
    /\ ManagerUnchanged

NextManager ==
    \/ ManagerInitialize
    \/ ManagerCleanup
    \/ ManagerHealthCheck
    \/ ManagerGetModelsStatus
    \/ \E model_name \in ModelNames, fault \in RetrainFaults :
           ManagerRetrain(model_name, fault)
    \/ LoopTimePasses

SpecManager == InitManager /\ [][NextManager]_vars

(***************************************************************************)
(* Properties of the analysis of one feature mapping (SpecAnalyzer).       *)
(***************************************************************************)

\* C1: for every feature mapping the heuristic probability p satisfies
\* 0 <= p <= 0.95 and the confidence c satisfies 0 <= c <= 1.
C1_HeuristicRange ==
    pc # "features" =>
        /\ 0 <= prediction.probability /\ prediction.probability <= 950
        /\ 0 <= prediction.confidence /\ prediction.confidence <= 1000

\* The risk score as the specification words it, over the defaults it lists.
SpecRiskScore(f) ==
    LET D(key, default) == IF key \in DOMAIN f THEN f[key].num ELSE default
    IN  3 * D("failure_rate_7d", 5)
        + (IF D("code_churn", 0) > 1000 THEN 200
           ELSE IF D("code_churn", 0) > 500 THEN 100 ELSE 0)
        + (IF D("test_coverage", 80) < 70 THEN 150
           ELSE IF D("test_coverage", 80) < 80 THEN 100 ELSE 0)
        + (IF D("error_rate", 1) > 5 THEN 200 ELSE 0)
        + (IF D("flaky_test_count", 0) > 5 THEN 150 ELSE 0)
        + (IF D("resource_utilization", 50) > 90 \/ D("memory_utilization", 60) > 90
           THEN 100 ELSE 0)

BoundaryScenario ==
    [failure_rate_7d |-> Num(25), code_churn |-> Num(1200), test_coverage |-> Num(65),
     error_rate |-> Num(6), flaky_test_count |-> Num(6),
     resource_utilization |-> Num(95)]

\* C2: on the heuristic path the probability is min(0.95, risk score), the
\* confidence is exactly 0.6, and the boundary scenario gives 0.875, critical.
C2_HeuristicFormula ==
    pc # "features" =>
        /\ prediction.probability =
              (IF SpecRiskScore(features) < 950 THEN SpecRiskScore(features) ELSE 950)
        /\ prediction.confidence = 600
        /\ features = BoundaryScenario =>
              prediction.probability = 875 /\ prediction.risk_level = "critical"

C2_Witness ==
    /\ pc = "predicted"
    /\ features = BoundaryScenario
    /\ prediction.probability = 875

\* The condition, severity and impact the specification gives each factor.
FactorTable ==
    [high_failure_rate |->
        [severity |-> "high", impact |-> 30, order |-> 1,
         holds |-> Val(features, "failure_rate_7d", 0) > 20],
     large_code_changes |->
        [severity |-> "medium", impact |-> 20, order |-> 2,
         holds |-> Val(features, "code_churn", 0) > 1000],
     low_test_coverage |->
        [severity |-> "high", impact |-> 25, order |-> 3,
         holds |-> Val(features, "test_coverage", 80) < 70],
     high_error_rate |->
        [severity |-> "high", impact |-> 30, order |-> 4,
         holds |-> Val(features, "error_rate", 1) > 5],
     flaky_tests |->
        [severity |-> "medium", impact |-> 15, order |-> 5,
         holds |-> Val(features, "flaky_test_count", 0) > 3],
     security_vulnerabilities |->
        [severity |-> "high", impact |-> 20, order |-> 6,
         holds |-> Val(features, "security_vulnerabilities", 0) > 0]]

Analyzed == pc \in {"analyzed", "recommended"}

\* C8: the risk-factor list holds each of the six factors exactly when its own
\* condition holds, with its severity and impact, and no factor twice.
C8_RiskFactorTriggers ==
    Analyzed =>
        /\ \A name \in DOMAIN FactorTable :
              FactorTable[name].holds <=>
                  \E i \in 1..Len(risk_factors) : risk_factors[i].factor = name
        /\ \A i \in 1..Len(risk_factors) :
              /\ risk_factors[i].factor \in DOMAIN FactorTable
              /\ risk_factors[i].severity = FactorTable[risk_factors[i].factor].severity
              /\ risk_factors[i].impact = FactorTable[risk_factors[i].factor].impact
        /\ \A i, j \in 1..Len(risk_factors) :
              risk_factors[i].factor = risk_factors[j].factor => i = j

C8_Witness ==
    /\ pc = "analyzed"
    /\ Len(risk_factors) = 6
    /\ Val(features, "flaky_test_count", 0) = 4

\* C9: the risk-factor list is sorted by impact non-increasing, and factors of
\* equal impact keep the order in which the code evaluates them.
C9_RiskOrdering ==
    Analyzed =>
        \A i, j \in 1..Len(risk_factors) :
            i < j =>
                /\ risk_factors[i].impact >= risk_factors[j].impact
                /\ risk_factors[i].impact = risk_factors[j].impact =>
                      FactorTable[risk_factors[i].factor].order
                          < FactorTable[risk_factors[j].factor].order

C9_Witness ==
    /\ pc = "analyzed"
    /\ Len(risk_factors) = 6
    /\ risk_factors[1].factor = "high_failure_rate"
    /\ risk_factors[2].factor = "high_error_rate"
    /\ risk_factors[4].factor = "large_code_changes"
    /\ risk_factors[5].factor = "security_vulnerabilities"

\* C10: the recommendation list has at most 5 entries and is the first
\* min(5, n) of the n recommendations generated, in generation order.
C10_RecommendationCap ==
    pc = "recommended" =>
        /\ Len(recommendations) <= 5
        /\ Len(recommendations) = (IF Len(generated) < 5 THEN Len(generated) ELSE 5)
        /\ \A i \in 1..Len(recommendations) : recommendations[i] = generated[i]

C10_Witness ==
    /\ pc = "recommended"
    /\ Len(generated) = 6
    /\ Len(recommendations) = 5
    /\ recommendations[1].type = "immediate"
    /\ generated[6].priority = "low"

\* What the specification says each risk factor recommends.
RecommendationTable ==
    [high_failure_rate |->
        [type |-> "process", priority |-> "high",
         action |-> "Review recent failures and implement fixes"],
     low_test_coverage |->
        [type |-> "quality", priority |-> "medium",
         action |-> "Increase test coverage before proceeding"],
     flaky_tests |->
        [type |-> "quality", priority |-> "medium",
         action |-> "Fix or quarantine flaky tests"],
     security_vulnerabilities |->
        [type |-> "security", priority |-> "high",
         action |-> "Address security vulnerabilities"]]

HasRecommendation(factor) == factor.factor \in DOMAIN RecommendationTable

\* C11: the recommendations are generated as: an immediate, high-priority
\* manual-review entry iff the risk level is high or critical (first, and the
\* only entry of type immediate); then one fixed entry per risk factor, in the
\* sorted order of the factors, for high_failure_rate, low_test_coverage,
\* flaky_tests and security_vulnerabilities and none for high_error_rate and
\* large_code_changes; last a low-priority entry iff deployment_frequency < 0.5.
C11_RecommendationOrder ==
    pc = "recommended" =>
        LET imm  == IF prediction.risk_level \in {"high", "critical"} THEN 1 ELSE 0
            sub  == SelectSeq(risk_factors, HasRecommendation)
            low  == IF Val(features, "deployment_frequency", 10) < 5 THEN 1 ELSE 0
        IN  /\ Len(generated) = imm + Len(sub) + low
            /\ imm = 1 =>
                  /\ generated[1].type = "immediate"
                  /\ generated[1].priority = "high"
                  /\ generated[1].action = "Consider manual review before deployment"
                  /\ recommendations[1] = generated[1]
            /\ \A i \in 1..Len(generated) :
                  generated[i].type = "immediate" => (i = 1 /\ imm = 1)
            /\ \A i \in 1..Len(sub) :
                  LET row == RecommendationTable[sub[i].factor]
                  IN  /\ generated[imm + i].type = row.type
                      /\ generated[imm + i].priority = row.priority
                      /\ generated[imm + i].action = row.action
            /\ low = 1 =>
                  /\ generated[Len(generated)].priority = "low"
                  /\ generated[Len(generated)].action =
                        "Consider increasing deployment frequency"
            /\ \A i \in 1..Len(generated) :
                  generated[i].priority = "low" => (i = Len(generated) /\ low = 1)

C11_Witness ==
    /\ pc = "recommended"
    /\ Len(risk_factors) = 6
    /\ risk_factors[2].factor = "high_error_rate"
    /\ Len(generated) = 6
    /\ generated[1].type = "immediate"
    /\ generated[2].action = "Review recent failures and implement fixes"
    /\ generated[3].action = "Increase test coverage before proceeding"
    /\ generated[6].priority = "low"


(***************************************************************************)
(* Properties of the services over their lifetime (Spec).                  *)
(***************************************************************************)

Predicted == result.op = "predict_failure"

\* C3: in every result of predict_failure, from the heuristic or from the
\* model, risk_level is low iff p < 0.1, medium iff 0.1 <= p < 0.3, high iff
\* 0.3 <= p < 0.6 and critical iff p >= 0.6, p being the failure probability
\* of the same result.
C3_RiskLevelThresholds ==
    (Predicted /\ ~Raised(result)) =>
        LET p     == result.value.failure_probability
            level == result.value.risk_level
        IN  /\ level \in {"low", "medium", "high", "critical"}
            /\ level = "low" <=> p < 100
            /\ level = "medium" <=> (100 <= p /\ p < 300)
            /\ level = "high" <=> (300 <= p /\ p < 600)
            /\ level = "critical" <=> p >= 600

C3_Witness ==
    /\ Predicted
    /\ ~Raised(result)
    /\ result.path = "model"
    /\ result.value.failure_probability = 100
    /\ result.value.risk_level = "medium"

\* C4: predict_failure on an untrained predictor with the empty input record
\* returns probability 0.015, risk level low, confidence 0.6, no risk factor
\* and no recommendation.
C4_ColdStart ==
    (Predicted /\ pipeline_metrics = EmptyRecord /\ result.path = "heuristic") =>
        /\ ~Raised(result)
        /\ result.value.failure_probability = 15
        /\ result.value.risk_level = "low"
        /\ result.value.confidence = 600
        /\ result.value.risk_factors = <<>>
        /\ result.value.recommendations = <<>>

C4_Witness ==
    /\ Predicted
    /\ pipeline_metrics = EmptyRecord
    /\ result.path = "heuristic"
    /\ ~is_trained[FP]
    /\ ~Raised(result)
    /\ result.value.failure_probability = 15

\* C5: when the trained predictor's feature-vector preparation or model
\* invocation raises, the prediction is the heuristic one for the same
\* feature mapping, with confidence 0.6, and the caller sees no error.
C5_FallbackOnError ==
    (Predicted /\ result.path = "fallback") =>
        /\ ~Raised(result)
        /\ result.value.confidence = 600
        /\ result.value.failure_probability =
              Min(950, SpecRiskScore(result.features))
        /\ result.value.risk_level =
              _heuristic_prediction(result.features).risk_level

\* C6: predict_failure raises for no input record, whichever sub-sections or
\* fields of it are missing, null or of the wrong type.
C6_NeverRaises == Predicted => ~Raised(result)

\* C7: optimize_build on a request that misses the cache returns a response
\* with an estimated build time, a confidence, an optimization potential and
\* the cache-strategy, resource-allocation, parallelization,
\* dependency-optimization and build-step-optimization recommendations.
C7_OptimizeBuildResponse ==
    (result.op = "optimize_build" /\ result.cache = "miss") =>
        /\ ~Raised(result)
        /\ {"estimated_build_time", "confidence_score", "optimization_potential"}
              \subseteq DOMAIN result.value
        /\ {"cache_strategy", "resource_allocation", "parallelization",
            "dependency_optimizations", "build_optimizations"}
              \subseteq DOMAIN result.value.recommendations


TrainingState == <<is_trained, model, scaler, last_training_time, model_metrics>>

TrainStep == now' # now

\* C13: in both services, a train_model call that returns has set is_trained,
\* last_training_time and the metrics; one that raises, at whatever step, has
\* changed none of the three.
C13_AtomicTrainingUpdate ==
    [][TrainStep =>
          LET s == result'.service
          IN  IF Raised(result')
              THEN /\ is_trained'[s] = is_trained[s]
                   /\ last_training_time'[s] = last_training_time[s]
                   /\ model_metrics' = model_metrics
              ELSE /\ is_trained'[s]
                   /\ last_training_time'[s] = [time |-> now]
                   /\ s = FP => /\ model_metrics' = result'.value
                                /\ model_metrics' # model_metrics]_vars

C13_Witness ==
    /\ result.op = "train_model"
    /\ result.service = FP
    /\ Raised(result)
    /\ model[FP] = [run |-> now - 1, fit |-> "done", mode |-> "eval"]
    /\ is_trained[FP]
    /\ last_training_time[FP] = [time |-> now - 2]
    /\ model_metrics = [k \in {"precision", "recall", "f1_score", "auc_score"}
                           |-> now - 2]


\* C14: in both services, when train_model raises the model handle and the
\* scaler that later predictions use are the objects, with the fitted
\* contents, that they were before the call.
C14_NoPartialCommit ==
    [][(TrainStep /\ Raised(result')) => (model' = model /\ scaler' = scaler)]_vars

\* C15: a prediction, whichever path it takes and whether it returns or
\* raises, leaves is_trained, the model handle and its mode, the scaler,
\* feature_names, the metrics and last_training_time unchanged.
C15_PredictionReadsOnly ==
    [][result'.op \in {"predict_failure", "optimize_build"} =>
          UNCHANGED modelState]_vars


\* C16: the Model State is changed by train_model only; is_trained becomes
\* true only when a train_model call returns and, once true, stays true.
C16_Lifecycle ==
    [][/\ ~TrainStep => UNCHANGED TrainingState
       /\ \A s \in Services :
             /\ is_trained[s] => is_trained'[s]
             /\ (~is_trained[s] /\ is_trained'[s]) =>
                   (TrainStep /\ result'.service = s /\ ~Raised(result'))]_vars

\* A train_model call of the failure predictor that returns.
TrainedStep == TrainStep /\ result'.service = FP /\ ~Raised(result')

\* C17: the model_version of a prediction result is v0.0.0 iff no train_model
\* call of the failure predictor has returned; otherwise it is v and the
\* completion time of the latest such call, to the second, which is the time
\* that health_check reports as last_training.
C17_ModelVersion ==
    /\ last_training_time[FP] = None
    /\ [][/\ IF TrainedStep
             THEN last_training_time'[FP] = [time |-> now]
             ELSE last_training_time'[FP] = last_training_time[FP]
          /\ (result'.op = "predict_failure" /\ ~Raised(result')) =>
                result'.value.model_version =
                    (IF last_training_time[FP] = None
                     THEN [literal |-> "v0.0.0"]
                     ELSE [v |-> [second |->
                                     last_training_time[FP].time \div TicksPerSecond]])
          /\ (result'.op = "health_check" /\ result'.service = FP) =>
                IF last_training_time[FP] = None
                THEN result'.value.last_training = None
                ELSE /\ result'.value.last_training # None
                     /\ result'.value.last_training.second =
                           last_training_time[FP].time \div TicksPerSecond]_vars

C17_Witness ==
    /\ result.op = "predict_failure"
    /\ ~Raised(result)
    /\ last_training_time[FP] = [time |-> 2]
    /\ result.value.model_version = [v |-> [second |-> 2 \div TicksPerSecond]]
    /\ ~is_trained[FP]


\* The defaults the specification documents for the empty input record.
DocumentedDefaults ==
    [pipeline_duration_mean |-> 300, pipeline_duration_std |-> 50,
     failure_rate_7d |-> 5, code_churn |-> 0, test_coverage |-> 80,
     deployment_frequency |-> 10, error_rate |-> 1, response_time_p95 |-> 200,
     resource_utilization |-> 50]

Columns(cols) == {cols[i] : i \in DOMAIN cols}

\* C18: the mapping a feature extractor produces holds every key of its
\* service's feature-column list, and for the empty record of the failure
\* predictor every such key has its documented default.
C18_DefaultCompleteness ==
    /\ (Predicted /\ result.features # None) =>
          /\ Columns(FailurePredictorFeatureColumns) \subseteq DOMAIN result.features
          /\ pipeline_metrics = EmptyRecord =>
                \A k \in Columns(FailurePredictorFeatureColumns) :
                    result.features[k] = Num(DocumentedDefaults[k])
    /\ (result.op = "optimize_build" /\ result.features # None) =>
          Columns(BuildOptimizerFeatureColumns) \subseteq DOMAIN result.features

C18_Witness ==
    /\ Predicted
    /\ pipeline_metrics = EmptyRecord
    /\ result.features # None
    /\ result.features["test_coverage"] = Num(80)
    /\ result.features["error_rate"] = Num(1)
    /\ DOMAIN DocumentedDefaults = Columns(FailurePredictorFeatureColumns)


\* The vector has one entry per configured column, in configuration order:
\* the mapping's value for the column, or 0.0.
SerializedBy(vector, f, columns) ==
    /\ Len(vector) = Len(columns)
    /\ \A i \in 1..Len(columns) :
           vector[i] = IF columns[i] \in DOMAIN f THEN f[columns[i]] ELSE Num(0)

\* The failure predictor builds a feature vector in this step: for a
\* training record, or for a prediction on the trained path.
BuildsVector ==
    \/ \E t \in TrainingRuns :
           /\ t.samples > 0 /\ ~t.malformed
           /\ TrainFailurePredictor(t.samples, t.malformed, t.fault)
    \/ /\ result'.op = "predict_failure"
       /\ result'.path \in {"model", "fallback"}

\* C25: wherever a service builds a feature vector (a trained-path
\* prediction or the preparation of training data) the vector has exactly
\* one entry per name of the service's static feature-column configuration,
\* in configuration order, each the mapping's value or 0.0 when absent.
C25_FeatureVector ==
    [][/\ (BuildsVector /\ ~Raised(_extract_features(pipeline_metrics))) =>
             SerializedBy(_prepare_feature_vector(
                              _extract_features(pipeline_metrics).value),
                          _extract_features(pipeline_metrics).value,
                          FailurePredictorFeatureColumns)
       /\ (result'.op = "optimize_build" /\ result'.cache = "miss"
             /\ model[BO] # None /\ is_trained[BO]) =>
             SerializedBy(BuildOptimizer_prepare_feature_vector(
                              BuildOptimizer_extract_features(request)),
                          BuildOptimizer_extract_features(request),
                          BuildOptimizerFeatureColumns)]_vars

\* The input record holds failure history: a non-empty failure_history.
HasFailureHistory(pm) ==
    /\ "failure_history" \in DOMAIN pm
    /\ Truthy(pm["failure_history"])

\* 0.8, times 0.8 at the extremes, times 0.7 without failure history, capped
DocumentedConfidence(pm, probability) ==
    LET edge    == IF probability < 50 \/ probability > 950
                   THEN (800 * 8) \div 10 ELSE 800
        quality == IF ~HasFailureHistory(pm) THEN (edge * 7) \div 10 ELSE edge
    IN  Min(1000, quality)

\* C26: on the trained path of the failure predictor the confidence is 0.8,
\* times 0.8 iff the probability is below 0.05 or above 0.95, times 0.7 iff
\* the input record has no failure history, capped at 1.0.
C26_TrainedConfidence ==
    (/\ result.op = "predict_failure"
     /\ result.path = "model"
     /\ ~Raised(result)) =>
        result.value.confidence =
            DocumentedConfidence(pipeline_metrics, result.value.failure_probability)

\* The model handle and the scaler of service s are the ones the last
\* train_model call that returned left behind.
Committed(s) ==
    /\ last_training_time[s] # None
    /\ model[s] # None
    /\ model[s].run = last_training_time[s].time
    /\ model[s].fit = "done"
    /\ scaler[s].fitted_by = last_training_time[s].time

\* C23: a prediction of an instance that was trained, made after a
\* train_model call has failed (or while one is in progress), runs the model
\* handle and scaler committed by the last successful training, never a
\* freshly constructed or partially fitted model or a refitted scaler.
C23_SnapshotSwap ==
    [][(result'.op = "predict_failure" /\ result'.path = "model") =>
          Committed(FP)]_vars

\* C28: on the trained path the feature vector handed to the model is
\* transformed by the scaler fitted in the training run that produced the
\* model, in both services.
C28_ScaledInference ==
    [][/\ (result'.op = "predict_failure" /\ result'.path = "model") =>
             /\ scaler[FP].fitted_by = model[FP].run
             /\ feature_tensor(result'.features) =
                    transform(scaler[FP], _prepare_feature_vector(result'.features))
       /\ (result'.op = "optimize_build" /\ result'.cache = "miss"
             /\ model[BO] # None /\ is_trained[BO]) =>
             /\ scaler[BO].fitted_by = model[BO].run
             /\ BuildOptimizer_model_input(result'.features) =
                    transform(scaler[BO],
                              BuildOptimizer_prepare_feature_vector(result'.features))]_vars

Occurrences(s, x) == Cardinality({i \in DOMAIN s : s[i] = x})

SameUpToOrdering(s, t) ==
    /\ Len(s) = Len(t)
    /\ \A i \in DOMAIN s : Occurrences(s, s[i]) = Occurrences(t, s[i])

\* The two requests agree on what the key is documented to depend on.
SameKeyFields(r1, r2) ==
    /\ r1.project_name = r2.project_name
    /\ r1.code_changes = r2.code_changes
    /\ r1.target_environment = r2.target_environment
    /\ SameUpToOrdering(r1.dependencies, r2.dependencies)

\* The answer to a request whose key is held by the cache.
CachedAnswer(r) ==
    [op |-> "optimize_build", cache |-> "hit", path |-> "none", features |-> None,
     effects |-> <<>>, value |-> cache[_generate_cache_key(r)]]

\* Every request that agrees with the stored one on the key fields is
\* answered from the cache, whatever the model may return in this state.
AnsweredFromCache ==
    (request # None /\ _generate_cache_key(request) \in DOMAIN cache) =>
        \A r2 \in BuildRequests :
            SameKeyFields(request, r2) =>
                \A c \in ModelChoices(BO, BuildOutputs) :
                    optimize_build(r2, c.output, c.fault) = CachedAnswer(request)

\* C30: optimize_build consults the cache first: two requests have the same
\* key exactly when they agree on project name, dependencies up to ordering,
\* the three code-change counts and target environment; while the cache
\* holds the key, every such request, before and after any other operation
\* (training included), is answered with the stored response, with no
\* feature extraction, prediction, cache write or metric recording.
C30_CacheFirst ==
    /\ (request # None =>
            \A r2 \in BuildRequests :
                (_generate_cache_key(r2) = _generate_cache_key(request))
                    <=> SameKeyFields(request, r2))
    /\ []AnsweredFromCache
    /\ [][(request # None /\ _generate_cache_key(request) \in DOMAIN cache) =>
              /\ cache' = cache
              /\ result'.op = "optimize_build" =>
                     /\ result' = CachedAnswer(request)
                     /\ result'.features = None
                     /\ result'.effects = <<>>]_vars

C30_Witness ==
    /\ result.op = "optimize_build"
    /\ result.cache = "hit"
    /\ result.value = StoredResponse(request)
    /\ request.dependencies = <<2, 1>>
    /\ request.historical_data # None
    /\ request.build_config # None
    /\ now > 0

(***************************************************************************)
(* Properties of the application (SpecApp).                                *)
(***************************************************************************)

ManagerEndpoints == {"GET /health", "GET /models/status", "POST /models/retrain"}

\* C19: while the global service manager is unset, GET /health,
\* GET /models/status and POST /models/retrain/{model_name} answer 503
\* without calling the manager; GET /health also answers 503 whenever the
\* manager reports healthy = false.
C19_UnavailableWithoutManager ==
    [][result'.op \in ManagerEndpoints =>
          IF ml_service_manager = None
          THEN result'.status = 503 /\ result'.calls = <<>>
          ELSE /\ Len(result'.calls) = 1
               /\ (result'.op = "GET /health"
                   /\ ~result'.calls[1].outcome.healthy) => result'.status = 503]_vars

C19_Witness ==
    /\ result.op = "POST /models/retrain"
    /\ result.model_name = "build_optimizer"
    /\ result.status = 503
    /\ result.calls = <<>>
    /\ ml_service_manager = None

\* C20: with an initialized manager, POST /models/retrain/{model_name}
\* answers 404 for a name the manager does not hold (the manager raises
\* ValueError), answers with the manager's task id for a name it holds, and
\* answers 500 for any other error; the manager's models and its initialized
\* flag are unchanged in all three cases.
C20_RetrainEndpoint ==
    [][(/\ result'.op = "POST /models/retrain"
        /\ IF ml_service_manager = None THEN FALSE
           ELSE ml_service_manager.initialized)
       => LET held    == result'.model_name \in DOMAIN ml_service_manager.models
              outcome == result'.calls[1].outcome
          IN  /\ Len(result'.calls) = 1
              /\ result'.calls[1].method = "retrain_model"
              /\ ~held => (/\ Raised(outcome)
                           /\ outcome.raised = "ValueError"
                           /\ result'.status = 404)
              /\ (held /\ ~Raised(outcome)) =>
                    (result'.status = 200 /\ result'.body.task_id = outcome.value)
              /\ (held /\ Raised(outcome)) =>
                    (outcome.raised # "ValueError" /\ result'.status = 500)
              /\ ml_service_manager' = ml_service_manager]_vars

C20_Witness ==
    /\ result.op = "POST /models/retrain"
    /\ result.model_name = "invalid_model"
    /\ result.status = 404
    /\ ml_service_manager = InitializedManager

\* C21: an app created while ENVIRONMENT is production has neither docs_url
\* nor redoc_url, an app created while it is development has docs_url /docs,
\* and get_settings returns the cached instance until the cache is cleared.
C21_DocsDisabledInProduction ==
    [][/\ result'.op = "create_app" =>
             /\ environ = EnvValue("production") =>
                    /\ result'.app.docs_url = None
                    /\ result'.app.redoc_url = None
             /\ environ = EnvValue("development") =>
                    result'.app.docs_url = Path("/docs")
       /\ (result'.op = "get_settings" /\ settings_cache # None) =>
             /\ result'.value = settings_cache
             /\ settings_cache' = settings_cache]_vars

(***************************************************************************)
(* Properties of the services on the event loop (SpecLoop).                *)
(***************************************************************************)

\* C22: on one service instance at most one train_model execution is in
\* progress at any time.
C22_TrainingMutualExclusion ==
    \A t1, t2 \in TaskIds :
        (/\ InProgress(t1)
         /\ InProgress(t2)
         /\ tasks[t1].service = tasks[t2].service) => t1 = t2

(***************************************************************************)
(* Properties of the epoch loop (SpecTraining).                            *)
(***************************************************************************)

\* The lowest loss among the first n epochs.
LowestLoss(losses, n) ==
    CHOOSE v \in LossValues :
        /\ \E k \in 1..n : losses[k] = v
        /\ \A k \in 1..n : losses[k] >= v

\* Epoch k has failed to improve on the best loss of the epochs before it.
NotImproved(losses, k) == k > 1 /\ losses[k] >= LowestLoss(losses, k - 1)

\* The epoch at which the loop is to stop.
StopEpoch(losses) ==
    LET stops == {e \in 1..epochs :
                     \A k \in (e - early_stopping_patience + 1)..e :
                         k >= 1 /\ NotImproved(losses, k)}
    IN  IF stops = {} THEN epochs
        ELSE CHOOSE e \in stops : \A d \in stops : e <= d

\* The first epoch with the lowest validation loss among those run.
BestEpoch(losses, n) ==
    CHOOSE e \in 1..n :
        /\ losses[e] = LowestLoss(losses, n)
        /\ \A k \in 1..(e - 1) : losses[k] > losses[e]

\* C24: the epoch loop stops at the first epoch at which the validation loss
\* has failed to improve for `patience` consecutive epochs, or after the
\* configured number of epochs, and the parameters the model holds after
\* training are those of the epoch with the lowest validation loss.
C24_EarlyStopping ==
    epoch_loop.pc = "trained" =>
        /\ epoch_loop.epoch = StopEpoch(epoch_loop.losses)
        /\ epoch_loop.params = BestEpoch(epoch_loop.losses, epoch_loop.epoch)

(***************************************************************************)
(* Properties of the build optimizer's confidence (SpecConfidence).        *)
(***************************************************************************)

\* The request carries build history, and its mean duration is positive.
HistoryKnown(r) ==
    /\ Truthy(r.historical_data)
    /\ SumDurations(r.historical_data.list) > 0

\* 0.8, times 0.8 outside [60, 1800] seconds, times 1.1 with known history,
\* capped at 1.0
DocumentedBuildConfidence(r, build_time) ==
    LET edge  == IF build_time < 6000 \/ build_time > 180000
                 THEN (800 * 8) \div 10 ELSE 800
        known == IF HistoryKnown(r) THEN (edge * 11) \div 10 ELSE edge
    IN  Min(1000, known)

\* C27: on the trained path of the build optimizer the confidence is 0.8,
\* times 0.8 iff the predicted build time is below 60 or above 1800 seconds,
\* times 1.1 iff the historical build time is known and positive, capped at
\* 1.0.
C27_BuildConfidence ==
    result.op = "_calculate_confidence" =>
        result.value = DocumentedBuildConfidence(request, prediction.num)

(***************************************************************************)
(* Properties of the service manager (SpecManager).                        *)
(***************************************************************************)

\* The manager holds exactly the three models when it is initialized and
\* none when it is not.
ManagerConsistent(m) ==
    DOMAIN m.models = IF m.initialized THEN ModelsToLoad ELSE {}

\* C29: at every operation boundary initialized is true iff the manager
\* holds exactly build_optimizer, failure_predictor and test_selector, and
\* it holds none otherwise; health_check reports healthy iff initialized;
\* retrain_model, health_check and get_models_status leave the state
\* unchanged; initialize and cleanup are idempotent.
C29_ManagerLifecycle ==
    /\ ManagerConsistent(ml_service_manager)
    /\ [][/\ ManagerConsistent(ml_service_manager')
          /\ result'.op = "health_check" =>
                 result'.value.healthy = ml_service_manager.initialized
          /\ result'.op \in {"retrain_model", "health_check", "get_models_status"} =>
                 ml_service_manager' = ml_service_manager
          /\ (result'.op = "initialize" /\ ml_service_manager.initialized) =>
                 ml_service_manager' = ml_service_manager
          /\ (result'.op = "cleanup" /\ ~ml_service_manager.initialized) =>
                 ml_service_manager' = ml_service_manager
          /\ result'.op = "initialize" => ml_service_manager'.initialized
          /\ result'.op = "cleanup" => ~ml_service_manager'.initialized]_vars

\* A cleanup, some time after the start, has left the manager without
\* models.
C29_Witness ==
    /\ result.op = "cleanup"
    /\ ~ml_service_manager.initialized
    /\ ml_service_manager.models = <<>>
    /\ now > 1

====
